---- MODULE Spec2Model ----
(***************************************************************************)
(* Model of jor0105/AI_Agent: the bounded conversation History, the        *)
(* retry_with_backoff decorator, the ChatWithAgentUseCase / CreateAgent    *)
(* use cases, the MetricsCollector, the ChatAdapterFactory, the            *)
(* EnvironmentConfig singleton, the SensitiveDataFilter, the               *)
(* OllamaChatAdapter, the AIAgent controller and the LoggingConfig.        *)
(*                                                                         *)
(* Each subsystem has its own specification (SpecHistory, SpecRetry,       *)
(* SpecChat, SpecMetrics, SpecMetricsConc, SpecFactory, SpecFactorySeq,    *)
(* SpecEnv, SpecEnvConc, SpecSingleton, SpecFilter, SpecOllama,            *)
(* SpecLogging, SpecAgents); the variables of the other subsystems stay    *)
(* at their initial value there.                                           *)
(***************************************************************************)
EXTENDS Integers, Sequences, FiniteSets, TLC

\* ------------------------------------------------------------------------
\* Bounds of the model (not program constants)
\* ------------------------------------------------------------------------
MaxCapacity == 3
MaxAppends == 4
MaxAttempts == 3
MaxTurns == 3
MaxRecords == 3
MaxCreates == 3
MaxResets == 1
MaxCacheSize == 2
MaxPasses == 2

\* ------------------------------------------------------------------------
\* Python values, as far as the code inspects them
\* ------------------------------------------------------------------------
\* A Python value is [t |-> type name, v |-> integer payload].  For a float
\* the payload is the value in tenths (15 is 1.5, 20 is 2.0).
PyInt(n) == [t |-> "int", v |-> n]
PyBool(b) == [t |-> "bool", v |-> IF b THEN 1 ELSE 0]
PyFloat(tenths) == [t |-> "float", v |-> tenths]
PyStr == [t |-> "str", v |-> 0]
PyNone == [t |-> "NoneType", v |-> 0]

\* isinstance(x, int): bool is a subclass of int in Python.
IsInstanceInt(x) == x.t \in {"int", "bool"}

Min(a, b) == IF a < b THEN a ELSE b

\* The last k elements of s, oldest first.
LastK(s, k) == SubSeq(s, Len(s) - Min(k, Len(s)) + 1, Len(s))

\* ------------------------------------------------------------------------
\* Message (src/domain/value_objects/message.py)
\* ------------------------------------------------------------------------
MessageRole == {"system", "user", "assistant"}

\* Text contents: two ordinary texts, the empty text and a whitespace-only one.
ValidContent == {"a", "b"}
BlankContent == {"", " "}
Content == ValidContent \cup BlankContent

\* str.strip() of the modelled contents.
Strip(c) == IF c \in BlankContent THEN "" ELSE c

\* Message.__post_init__: "" when the message is built, else the exception.
MessagePostInit(role, content) ==
    IF role \notin MessageRole THEN "ValueError"
    ELSE IF content = "" \/ Strip(content) = "" THEN "ValueError"
    ELSE ""

Message(role, content) == [role |-> role, content |-> content]

Messages == {Message(r, c) : r \in MessageRole, c \in ValidContent}

\* An object that is not a Message, handed to History.add.
NotAMessage == [role |-> "dict", content |-> "a"]

\* ------------------------------------------------------------------------
\* collections.deque with maxlen
\* ------------------------------------------------------------------------
\* deque.append under maxlen: a full deque drops its leftmost item.
DequeAppendDropNewest(q, maxlen, x) ==
    IF Len(q) >= maxlen THEN q ELSE Append(q, x)

DequeAppend(q, maxlen, x) ==
    IF Len(q) >= maxlen THEN Append(Tail(q), x) ELSE Append(q, x)

RECURSIVE DequeFrom(_, _)
\* deque(iterable, maxlen): the items are appended one by one.
DequeFrom(items, maxlen) ==
    IF items = <<>> THEN <<>>
    ELSE DequeAppend(DequeFrom(SubSeq(items, 1, Len(items) - 1), maxlen),
                     maxlen, items[Len(items)])

\* ------------------------------------------------------------------------
\* State
\* ------------------------------------------------------------------------
VARIABLES
    h_live,      \* TRUE when a History object exists
    max_size,    \* History.max_size
    messages,    \* History._messages (the deque's items, oldest first)
    h_last,      \* the last History call: [op, arg, raised, before]
    appended,    \* the messages appended since the latest clear (ghost)
    retry_args,  \* the arguments of retry_with_backoff(...)
    func,        \* the wrapped function: its outcome at each invocation
    pc,          \* where the wrapper is: idle, call, on_retry, sleep, done
    attempt,     \* wrapper local: attempt
    delay,       \* wrapper local: delay
    last_exception, \* wrapper local: last_exception
    calls,       \* number of invocations of the wrapped function (ghost)
    events,      \* what the wrapper did, in order (ghost)
    outcome,     \* how the wrapped call ended
    agent_live,  \* TRUE when an Agent exists
    agent_max_size, \* agent.history.max_size
    agent_history,  \* agent.history._messages
    repo_calls,  \* number of calls of chat_repository.chat (ghost)
    turns,       \* number of execute calls that returned (ghost)
    chat_last,   \* the last use-case call: [op, message, reply, raised, detail]
    collector_live, \* TRUE when a MetricsCollector exists
    metrics,     \* MetricsCollector._metrics
    mc_last,     \* the last MetricsCollector call: [op, max_metrics, raised]
    gs,          \* get_summary in progress: its position and its locals
    summary,     \* what the call just made returned or raised, if it was get_summary
    f_cache,     \* ChatAdapterFactory._cache: the (cache_key, adapter) entries
    f_th,        \* the threads inside ChatAdapterFactory.create
    f_built,     \* the adapters constructed since the latest clear_cache (ghost)
    f_next,      \* the identity of the next adapter object (ghost)
    f_log,       \* the create and clear_cache calls made one after the other (ghost)
    environ,     \* os.environ, as far as the keys of the model go
    dotenv,      \* the contents of the .env file
    e_instance,  \* EnvironmentConfig._instance (0 is None)
    e_initialized, \* EnvironmentConfig._initialized
    e_cache,     \* EnvironmentConfig._cache
    e_lock,      \* EnvironmentConfig._lock: the thread that holds it, or 0
    e_last,      \* the last EnvironmentConfig call: [op, key, default, raised, value]
    blank_since, \* per key: no usable value since the cache was last cleared (ghost)
    s_th,        \* the threads inside EnvironmentConfig()
    e_epoch,     \* number of reset calls so far (ghost)
    e_created,   \* instances created since the latest reset (ghost)
    e_loads,     \* load_dotenv calls made by __init__ since the latest reset (ghost)
    e_next,      \* the identity of the next instance (ghost)
    sdf_cache,   \* the LRU cache of _filter_cached: (text, result), oldest use first
    sdf_last,    \* the last SensitiveDataFilter call
    sdf_overflowed, \* an entry was evicted since the latest clear_cache (ghost)
    o_metrics,   \* OllamaChatAdapter.__metrics
    o_pc,        \* where OllamaChatAdapter.chat is: idle, or api (inside the API call)
    o_done,      \* number of chat calls that have ended (ghost)
    o_last,      \* the last chat call: [op, raised, before, attempts]
    o_max_retries, \* OllamaChatAdapter.__max_retries
    g_th,        \* the threads inside get_api_key / get_env
    ai_agents,   \* the AIAgent objects: [live, adapter, max_size, history]
    ad_metrics,  \* per adapter object: its __metrics, each record tagged with its AIAgent
    l_configured, \* LoggingConfig._configured
    l_log_level, \* LoggingConfig._log_level
    l_root_level, \* logging.getLogger().level
    l_handlers,  \* the levels of logging.getLogger().handlers
    l_loggers,   \* per name: whether get_logger returned it, and its level
    l_since,     \* the level of the latest set_level, 0 after reset (ghost)
    l_last       \* the last logging call: [op, name, level, emitted]

hvars == <<h_live, max_size, messages, h_last, appended>>

rvars == <<retry_args, func, pc, attempt, delay, last_exception, calls, events, outcome>>

cvars == <<agent_live, agent_max_size, agent_history, repo_calls, turns, chat_last>>

mvars == <<collector_live, metrics, mc_last>>

svars == <<gs, summary>>

\* The variables of the subsystems further down.
fvars == <<f_cache, f_th, f_built, f_next, f_log>>

evars == <<environ, dotenv, e_instance, e_initialized, e_cache, e_lock, e_last,
           blank_since, s_th, e_epoch, e_created, e_loads, e_next>>

dvars == <<sdf_cache, sdf_last, sdf_overflowed>>

ovars == <<o_metrics, o_pc, o_done, o_last>>

kvars == <<o_max_retries>>

gvars == <<g_th>>

avars == <<ai_agents, ad_metrics>>

lvars == <<l_configured, l_log_level, l_root_level, l_handlers, l_loggers, l_since, l_last>>

yvars == <<kvars, gvars, avars, lvars>>

xvars == <<fvars, evars, dvars, ovars, yvars>>

vars == <<hvars, rvars, cvars, mvars, svars, xvars>>

\* What the operations of one subsystem leave alone.
notHistory == <<rvars, cvars, mvars, svars, xvars>>
notRetry == <<hvars, cvars, mvars, svars, xvars>>
notChat == <<hvars, rvars, mvars, svars, xvars>>
notMetrics == <<hvars, rvars, cvars, xvars>>

\* ------------------------------------------------------------------------
\* History (src/domain/value_objects/history.py)
\* ------------------------------------------------------------------------
\* The max_size arguments tried at construction.
MaxSizeArgs ==
    {PyInt(n) : n \in -1..MaxCapacity}
        \cup {PyBool(TRUE), PyBool(FALSE), PyFloat(15), PyFloat(20), PyStr, PyNone}

\* The _messages arguments tried at construction (the default is empty).
InitialMessages ==
    {<<>>, <<Message("system", "a")>>,
     <<Message("user", "a"), Message("assistant", "b")>>}

NoCall == [op |-> "none", arg |-> PyNone, raised |-> "", before |-> <<>>]

\* History.__post_init__ validation: the exception raised, "" if none.
HistoryPostInitCoerce(arg) ==
    IF arg.t \in {"int", "bool", "float"} /\ arg.v > 0 THEN "" ELSE "ValueError"

HistoryPostInitRaises(arg) ==
    IF ~IsInstanceInt(arg) \/ arg.v <= 0 THEN "ValueError" ELSE ""

\* The retry subsystem at rest: nothing decorated, nothing called.
RetryIdle ==
    /\ retry_args = [max_attempts |-> 0, initial_delay |-> 0, backoff_factor |-> 0,
                     jitter |-> FALSE, on_retry |-> FALSE]
    /\ func = <<>>
    /\ pc = "idle"
    /\ attempt = 0
    /\ delay = 0
    /\ last_exception = 0
    /\ calls = 0
    /\ events = <<>>
    /\ outcome = [kind |-> "none", value |-> 0]

\* No agent yet.
ChatInit ==
    /\ agent_live = FALSE
    /\ agent_max_size = 0
    /\ agent_history = <<>>
    /\ repo_calls = 0
    /\ turns = 0
    /\ chat_last = [op |-> "none", message |-> [is_str |-> TRUE, text |-> ""],
                    reply |-> [kind |-> "none", text |-> ""], raised |-> "",
                    detail |-> ""]

\* No collector yet.
MetricsInit ==
    /\ collector_live = FALSE
    /\ metrics = <<>>
    /\ mc_last = [op |-> "none", max_metrics |-> 0, raised |-> ""]

\* No get_summary in progress.
GsIdle ==
    [pc |-> "idle", total_requests |-> 0, successful |-> 0, failed |-> 0,
     latencies |-> <<>>]

\* The call just made was not get_summary.
NoSummary ==
    [keys |-> {}, total_requests |-> 0, successful |-> 0, failed |-> 0,
     success_rate |-> [num |-> 0, den |-> 1],
     avg_latency_ms |-> [num |-> 0, den |-> 1],
     min_latency_ms |-> 0, max_latency_ms |-> 0, total_tokens |-> 0,
     raised |-> ""]

SummaryInit ==
    /\ gs = GsIdle
    /\ summary = NoSummary

Threads == {1, 2}

\* A thread that is not inside ChatAdapterFactory.create.
FactoryThreadIdle ==
    [pc |-> "idle", provider |-> "", model |-> "", adapter |-> 0, ret |-> 0,
     raised |-> "", fresh |-> FALSE]

\* The class as imported: an empty cache.
FactoryInit ==
    /\ f_cache = {}
    /\ f_th = [t \in Threads |-> FactoryThreadIdle]
    /\ f_built = {}
    /\ f_next = 1
    /\ f_log = <<>>

\* The environment variables the model follows, and what they may hold: a
\* missing variable, an empty one, a whitespace-only one and a padded value.
Keys == {"OPENAI_API_KEY", "OLLAMA_HOST"}
Missing == "<missing>"
EnvValues == {Missing, "", " ", " v "}

\* The .env file: without entries, or with OPENAI_API_KEY=f.
DotenvFiles ==
    {[k \in Keys |-> Missing],
     [k \in Keys |-> IF k = "OPENAI_API_KEY" THEN "f" ELSE Missing]}

\* The result of a call that returned None or raised.
NoValue == "<None>"

\* A thread that is not inside EnvironmentConfig().
SingletonThreadIdle == [pc |-> "idle", ret |-> 0, epoch |-> 0, raced |-> FALSE]

\* The class as imported, in a process whose environment has none of the keys.
EnvIdle ==
    /\ environ = [k \in Keys |-> Missing]
    /\ e_instance = 0
    /\ e_initialized = FALSE
    /\ e_cache = [k \in Keys |-> Missing]
    /\ e_lock = 0
    /\ e_last = [op |-> "none", key |-> "", default |-> NoValue, raised |-> "",
                 value |-> NoValue]
    /\ blank_since = [k \in Keys |-> TRUE]
    /\ s_th = [t \in Threads |-> SingletonThreadIdle]
    /\ e_epoch = 0
    /\ e_created = 0
    /\ e_loads = 0
    /\ e_next = 1

\* Outside the specifications of EnvironmentConfig there is no .env file.
EnvInit == EnvIdle /\ dotenv = [k \in Keys |-> Missing]

\* No SensitiveDataFilter call yet.
NoFilterCall ==
    [op |-> "none", text |-> <<>>, n |-> 0, result |-> <<>>, src |-> "input",
     passes |-> 0, hit |-> FALSE]

FilterInit ==
    /\ sdf_cache = <<>>
    /\ sdf_last = NoFilterCall
    /\ sdf_overflowed = FALSE

\* An OllamaChatAdapter that has not chatted yet.
OllamaInit ==
    /\ o_metrics = <<>>
    /\ o_pc = "idle"
    /\ o_done = 0
    /\ o_last = [op |-> "none", raised |-> "", before |-> 0, attempts |-> 0]

\* The default of OLLAMA_MAX_RETRIES.
RetriesInit == o_max_retries = 3

\* A thread that is not inside get_api_key or get_env.
EnvThreadIdle ==
    [pc |-> "idle", op |-> "", key |-> "", default |-> NoValue, raised |-> "",
     value |-> NoValue]

EnvThreadsInit == g_th = [t \in Threads |-> EnvThreadIdle]

\* No AIAgent built, no adapter constructed.
AgentIds == {1, 2}

NoAgent == [live |-> FALSE, adapter |-> 0, max_size |-> 0, history |-> <<>>]

AgentsInit ==
    /\ ai_agents = [a \in AgentIds |-> NoAgent]
    /\ ad_metrics = <<>>

\* The logging module as imported: the root logger at WARNING without
\* handlers, LoggingConfig not configured, no logger handed out.
LoggerNames == {"module1", "module2"}

NoLog == [op |-> "none", name |-> "", level |-> 0, emitted |-> FALSE]

LoggingInit ==
    /\ l_configured = FALSE
    /\ l_log_level = 20
    /\ l_root_level = 30
    /\ l_handlers = <<>>
    /\ l_loggers = [n \in LoggerNames |-> [obtained |-> FALSE, level |-> 0]]
    /\ l_since = 0
    /\ l_last = NoLog

LaterInit == EnvThreadsInit /\ AgentsInit /\ LoggingInit

\* The subsystems further down at rest.
OthersInit ==
    SummaryInit /\ FactoryInit /\ EnvInit /\ FilterInit /\ OllamaInit /\ RetriesInit
        /\ LaterInit

HistoryInit ==
    /\ h_live = FALSE
    /\ max_size = 0
    /\ messages = <<>>
    /\ h_last = NoCall
    /\ appended = <<>>

\* History(max_size=arg, _messages=initial).  The deque is filled from the
\* initial messages one by one, so they count as appended at construction.
HistoryNew ==
    \E arg \in MaxSizeArgs, initial \in InitialMessages :
        LET exc == HistoryPostInitRaises(arg) IN
        /\ h_last' = [op |-> "new", arg |-> arg, raised |-> exc, before |-> <<>>]
        /\ IF exc = ""
           THEN /\ h_live' = TRUE
                /\ max_size' = arg.v
                /\ messages' = DequeFrom(initial, arg.v)
                /\ appended' = initial
           ELSE /\ h_live' = FALSE
                /\ max_size' = 0
                /\ messages' = <<>>
                /\ appended' = <<>>
        /\ UNCHANGED notHistory

\* The effect of History.add(message) on the state.
HistoryAdd(op, message) ==
    /\ h_live
    /\ Len(appended) < MaxAppends
    /\ IF message \notin Messages
       THEN /\ h_last' = [op |-> op, arg |-> PyNone, raised |-> "TypeError", before |-> messages]
            /\ UNCHANGED <<messages, appended>>
       ELSE /\ h_last' = [op |-> op, arg |-> PyNone, raised |-> "", before |-> messages]
            /\ messages' = DequeAppend(messages, max_size, message)
            /\ appended' = Append(appended, message)
    /\ UNCHANGED <<h_live, max_size>>
    /\ UNCHANGED notHistory

\* History.add(message)
add == \E message \in Messages \cup {NotAMessage} : HistoryAdd("add", message)

\* add_user_message / add_assistant_message / add_system_message: build the
\* Message (which may raise) and add it.
AddWithRole(op, role) ==
    \E content \in Content :
        LET exc == MessagePostInit(role, content) IN
        IF exc # ""
        THEN /\ h_live
             /\ h_last' = [op |-> op, arg |-> PyNone, raised |-> exc, before |-> messages]
             /\ UNCHANGED <<h_live, max_size, messages, appended>>
             /\ UNCHANGED notHistory
        ELSE HistoryAdd(op, Message(role, content))

add_user_message == AddWithRole("add_user_message", "user")

add_assistant_message == AddWithRole("add_assistant_message", "assistant")

add_system_message == AddWithRole("add_system_message", "system")

\* History.clear()
clear ==
    /\ h_live
    /\ messages' = <<>>
    /\ appended' = <<>>
    /\ h_last' = [op |-> "clear", arg |-> PyNone, raised |-> "", before |-> messages]
    /\ UNCHANGED <<h_live, max_size>>
    /\ UNCHANGED notHistory

\* History.get_messages(): a copy of the deque as a list.
get_messages == messages

\* len(history)
HistoryLen == Len(messages)

HistoryNext ==
    \/ HistoryNew
    \/ add
    \/ add_user_message
    \/ add_assistant_message
    \/ add_system_message
    \/ clear

HistorySpecInit == HistoryInit /\ RetryIdle /\ ChatInit /\ MetricsInit /\ OthersInit

SpecHistory == HistorySpecInit /\ [][HistoryNext]_vars

\* ------------------------------------------------------------------------
\* retry_with_backoff (src/infra/config/retry.py)
\* ------------------------------------------------------------------------
\* What one invocation of the wrapped function does: return, or raise an
\* exception of one of two types.
ExceptionTypes == {"ConnectionError", "ValueError"}
FuncOutcomes == {"ok"} \cup ExceptionTypes

\* The `exceptions` tuples tried: the default (Exception,) and (ConnectionError,).
ExceptionTuples == {{"Exception"}, {"ConnectionError"}}

\* Delays are in milliseconds; random.uniform(-0.1, 0.1) is drawn in percent.
InitialDelays == {0, 1000}
BackoffFactors == {2, 3}
JitterPercents == {-10, 0, 10}

RetryArgs ==
    [max_attempts : -1..MaxAttempts,
     initial_delay : InitialDelays,
     backoff_factor : BackoffFactors,
     exceptions : ExceptionTuples,
     jitter : BOOLEAN,
     on_retry : BOOLEAN]

\* The outcome of the i-th invocation of the wrapped function.
FuncOutcome(i) == IF i \in DOMAIN func THEN func[i] ELSE "ok"

\* `except exceptions as e`: does the clause catch an exception of this type?
\* Every modelled type derives from Exception.
CatchesAll(type, exceptions) == TRUE

Catches(type, exceptions) == "Exception" \in exceptions \/ type \in exceptions

\* `if attempt == max_attempts`
IsFinalAttemptEarly(a, max_attempts) == a >= max_attempts - 1

IsFinalAttempt(a, max_attempts) == a = max_attempts

\* The value returned and the exception raised by the i-th invocation are
\* both identified by i.
Returned(i) == [kind |-> "return", value |-> i]
Raised(i) == [kind |-> "raise", value |-> i]
ReturnedNone == [kind |-> "return_none", value |-> 0]
RaisedByCallback == [kind |-> "raise_callback", value |-> 0]

Event(e, a, x) == [e |-> e, a |-> a, x |-> x]

RetryInit ==
    /\ retry_args \in RetryArgs
    /\ func \in [1..MaxAttempts -> FuncOutcomes]
    /\ pc = "idle"
    /\ attempt = 0
    /\ delay = 0
    /\ last_exception = 0
    /\ calls = 0
    /\ events = <<>>
    /\ outcome = [kind |-> "none", value |-> 0]

\* `for attempt in range(1, max_attempts + 1)` moving to attempt a; when the
\* range is exhausted, the code after the loop runs:
\* `if last_exception: raise last_exception`, else the wrapper returns None.
LoopToShort(a, last) ==
    IF a <= retry_args.max_attempts - 1
    THEN /\ attempt' = a
         /\ pc' = "call"
         /\ outcome' = outcome
    ELSE /\ attempt' = attempt
         /\ pc' = "done"
         /\ outcome' = IF last # 0 THEN Raised(last) ELSE ReturnedNone

LoopTo(a, last) ==
    IF a <= retry_args.max_attempts
    THEN /\ attempt' = a
         /\ pc' = "call"
         /\ outcome' = outcome
    ELSE /\ attempt' = attempt
         /\ pc' = "done"
         /\ outcome' = IF last # 0 THEN Raised(last) ELSE ReturnedNone

\* wrapper(*args, **kwargs) is called: lines 49-52.
WrapperCall ==
    /\ pc = "idle"
    /\ delay' = retry_args.initial_delay
    /\ last_exception' = 0
    /\ LoopTo(1, 0)
    /\ UNCHANGED <<retry_args, func, calls, events>>
    /\ UNCHANGED notRetry

\* Attempt without `if attempt == max_attempts: raise`.
AttemptSleepsAfterFinal ==
    /\ pc = "call"
    /\ calls' = calls + 1
    /\ events' = Append(events, Event("call", attempt, 0))
    /\ LET o == FuncOutcome(calls + 1) IN
       IF o = "ok"
       THEN /\ pc' = "done"
            /\ outcome' = Returned(calls + 1)
            /\ UNCHANGED last_exception
       ELSE IF ~Catches(o, retry_args.exceptions)
       THEN /\ pc' = "done"
            /\ outcome' = Raised(calls + 1)
            /\ UNCHANGED last_exception
       ELSE /\ last_exception' = calls + 1
            /\ pc' = "on_retry"
            /\ UNCHANGED outcome
    /\ UNCHANGED <<retry_args, func, attempt, delay>>
    /\ UNCHANGED notRetry

\* One pass of the try statement: lines 53-60.
Attempt ==
    /\ pc = "call"
    /\ calls' = calls + 1
    /\ events' = Append(events, Event("call", attempt, 0))
    /\ LET o == FuncOutcome(calls + 1) IN
       IF o = "ok"
       THEN /\ pc' = "done"
            /\ outcome' = Returned(calls + 1)
            /\ UNCHANGED last_exception
       ELSE IF ~Catches(o, retry_args.exceptions)
       THEN /\ pc' = "done"
            /\ outcome' = Raised(calls + 1)
            /\ UNCHANGED last_exception
       ELSE /\ last_exception' = calls + 1
            /\ IF IsFinalAttempt(attempt, retry_args.max_attempts)
               THEN /\ pc' = "done"
                    /\ outcome' = Raised(calls + 1)
               ELSE /\ pc' = "on_retry"
                    /\ UNCHANGED outcome
    /\ UNCHANGED <<retry_args, func, attempt, delay>>
    /\ UNCHANGED notRetry

\* OnRetry with attempts counted from 0.
OnRetryZeroBased ==
    /\ pc = "on_retry"
    /\ IF retry_args.on_retry
       THEN \E cb_raises \in BOOLEAN :
              events' =
                  IF cb_raises
                  THEN events \o <<Event("on_retry", attempt - 1, last_exception),
                                   Event("callback_error", attempt, 0)>>
                  ELSE Append(events, Event("on_retry", attempt - 1, last_exception))
       ELSE UNCHANGED events
    /\ pc' = "sleep"
    /\ UNCHANGED <<retry_args, func, attempt, delay, last_exception, calls, outcome>>
    /\ UNCHANGED notRetry

\* OnRetry without the try/except around the callback.
OnRetryUnguarded ==
    /\ pc = "on_retry"
    /\ IF retry_args.on_retry
       THEN \E cb_raises \in BOOLEAN :
              IF cb_raises
              THEN /\ events' = Append(events, Event("on_retry", attempt, last_exception))
                   /\ pc' = "done"
                   /\ outcome' = RaisedByCallback
              ELSE /\ events' = Append(events, Event("on_retry", attempt, last_exception))
                   /\ pc' = "sleep"
                   /\ UNCHANGED outcome
       ELSE /\ pc' = "sleep"
            /\ UNCHANGED <<events, outcome>>
    /\ UNCHANGED <<retry_args, func, attempt, delay, last_exception, calls>>
    /\ UNCHANGED notRetry

\* The callback: lines 62-69.  The callback returns or raises an Exception,
\* which the except clause logs as a warning.
OnRetry ==
    /\ pc = "on_retry"
    /\ IF retry_args.on_retry
       THEN \E cb_raises \in BOOLEAN :
              events' =
                  IF cb_raises
                  THEN events \o <<Event("on_retry", attempt, last_exception),
                                   Event("callback_error", attempt, 0)>>
                  ELSE Append(events, Event("on_retry", attempt, last_exception))
       ELSE UNCHANGED events
    /\ pc' = "sleep"
    /\ UNCHANGED <<retry_args, func, attempt, delay, last_exception, calls, outcome>>
    /\ UNCHANGED notRetry

\* delay * jitter_factor, jitter_factor = 1 + percent / 100
Jittered(d, percent) == (d * (100 + percent)) \div 100

\* Sleep with the jittered delay carried into the next base delay.
SleepJitterCarried ==
    /\ pc = "sleep"
    /\ \E percent \in JitterPercents :
          LET actual_delay == IF retry_args.jitter THEN Jittered(delay, percent) ELSE delay
          IN /\ events' = Append(events, Event("sleep", attempt, actual_delay))
             /\ delay' = actual_delay * retry_args.backoff_factor
    /\ LoopTo(attempt + 1, last_exception)
    /\ UNCHANGED <<retry_args, func, last_exception, calls>>
    /\ UNCHANGED notRetry

\* The sleep and the step of the loop: lines 71-83.
Sleep ==
    /\ pc = "sleep"
    /\ \E percent \in JitterPercents :
          LET actual_delay == IF retry_args.jitter THEN Jittered(delay, percent) ELSE delay
          IN events' = Append(events, Event("sleep", attempt, actual_delay))
    /\ delay' = delay * retry_args.backoff_factor
    /\ LoopTo(attempt + 1, last_exception)
    /\ UNCHANGED <<retry_args, func, last_exception, calls>>
    /\ UNCHANGED notRetry

RetryNext ==
    \/ WrapperCall
    \/ Attempt
    \/ OnRetry
    \/ Sleep

RetrySpecInit == RetryInit /\ HistoryInit /\ ChatInit /\ MetricsInit /\ OthersInit

SpecRetry == RetrySpecInit /\ [][RetryNext]_vars

\* ------------------------------------------------------------------------
\* CreateAgentUseCase, ChatWithAgentUseCase, Agent
\* (src/application/use_cases, src/application/dtos, src/domain/entities)
\* ------------------------------------------------------------------------
\* The text fields of CreateAgentInputDTO: a proper text or a blank one.
FieldTexts == {"x", " "}

CreateAgentInputs ==
    [provider : FieldTexts, model : FieldTexts, name : FieldTexts,
     instructions : FieldTexts, config_is_dict : BOOLEAN,
     history_max_size : MaxSizeArgs]

\* CreateAgentInputDTO.validate: the exception raised, "" if none.
CreateAgentValidate(dto) ==
    IF \/ Strip(dto.provider) = ""
       \/ Strip(dto.model) = ""
       \/ Strip(dto.name) = ""
       \/ Strip(dto.instructions) = ""
       \/ ~dto.config_is_dict
       \/ ~IsInstanceInt(dto.history_max_size)
       \/ dto.history_max_size.v <= 0
    THEN "ValueError"
    ELSE ""

\* The messages handed to ChatInputDTO: texts, and an object that is no str.
\* The sampling options (temperature, max_tokens, top_p, stop) that execute
\* hands on to the repository do not touch the state and are left out.
ChatInputs ==
    {[is_str |-> TRUE, text |-> c] : c \in Content}
        \cup {[is_str |-> FALSE, text |-> ""]}

\* ChatInputDTO.validate: the exception raised, "" if none.
ChatInputValidateNone(message) == ""

ChatInputValidate(message) ==
    IF ~message.is_str \/ Strip(message.text) = "" THEN "ValueError" ELSE ""

\* What chat_repository.chat does: return a text, return None, or raise.
RepositoryExceptions ==
    {"ChatException", "ValueError", "TypeError", "KeyError", "RuntimeError"}

RepositoryReplies ==
    {[kind |-> "return", text |-> c] : c \in Content}
        \cup {[kind |-> "return_none", text |-> ""]}
        \cup {[kind |-> "raise", text |-> e] : e \in RepositoryExceptions}

\* `if not response`
IsFalsy(reply) == reply.kind = "return_none" \/ reply.text = ""

\* The except clauses of execute: the detail of the ChatException raised for
\* an exception of type e caught in the try block.
ExceptDetail(e) ==
    CASE e = "ChatException" -> "reraised"
      [] e = "ValueError" -> "Erro de validacao durante o chat"
      [] e = "TypeError" -> "Erro de tipo durante o chat"
      [] e = "KeyError" -> "Erro ao processar resposta da IA"
      [] OTHER -> "Erro inesperado durante comunicacao com IA"

\* Agent.add_user_message / add_assistant_message on a history h of capacity
\* cap: [raised, history].
AgentAdd(h, cap, role, content) ==
    LET exc == MessagePostInit(role, content) IN
    IF exc # "" THEN [raised |-> exc, history |-> h]
    ELSE [raised |-> "", history |-> DequeAppend(h, cap, Message(role, content))]

\* Lines 59-62 of execute with the two appends swapped.
RecordTurnSwapped(h, cap, message, response) ==
    LET first == AgentAdd(h, cap, "assistant", response) IN
    IF first.raised # "" THEN first
    ELSE AgentAdd(first.history, cap, "user", message)

\* Lines 59-62 of execute: the user message is appended, then the response.
RecordTurn(h, cap, message, response) ==
    LET first == AgentAdd(h, cap, "user", message) IN
    IF first.raised # "" THEN first
    ELSE AgentAdd(first.history, cap, "assistant", response)

\* The try block of execute (lines 43-92) for a validated message and a
\* repository that answers `reply`: [raised, detail, history].
ExecuteTry(h, cap, message, reply) ==
    IF reply.kind = "raise"
    THEN [raised |-> "ChatException", detail |-> ExceptDetail(reply.text), history |-> h]
    ELSE IF IsFalsy(reply)
    THEN [raised |-> "ChatException", detail |-> "Resposta vazia", history |-> h]
    ELSE LET added == RecordTurn(h, cap, message.text, reply.text) IN
         IF added.raised # ""
         THEN [raised |-> "ChatException", detail |-> ExceptDetail(added.raised),
               history |-> added.history]
         ELSE [raised |-> "", detail |-> "", history |-> added.history]

AgentSlotEmpty ==
    /\ agent_live' = FALSE
    /\ agent_max_size' = 0
    /\ agent_history' = <<>>

\* CreateAgentUseCase.execute(input_dto): the DTO is validated, then the
\* Agent is built around History(max_size=input_dto.history_max_size).
CreateAgent ==
    \E dto \in CreateAgentInputs :
        LET invalid == CreateAgentValidate(dto)
            exc == IF invalid # "" THEN "InvalidAgentConfigException"
                   ELSE HistoryPostInitRaises(dto.history_max_size)
        IN
        /\ IF exc = ""
           THEN /\ agent_live' = TRUE
                /\ agent_max_size' = dto.history_max_size.v
                /\ agent_history' = DequeFrom(<<>>, dto.history_max_size.v)
           ELSE AgentSlotEmpty
        /\ chat_last' = [op |-> "create", message |-> [is_str |-> TRUE, text |-> ""],
                         reply |-> [kind |-> "none", text |-> ""], raised |-> exc,
                         detail |-> ""]
        /\ repo_calls' = 0
        /\ turns' = 0
        /\ UNCHANGED notChat

\* ChatWithAgentUseCase.execute(agent, input_dto)
ChatExecute ==
    /\ agent_live
    /\ repo_calls < MaxTurns
    /\ \E message \in ChatInputs, reply \in RepositoryReplies :
          LET invalid == ChatInputValidate(message) IN
          IF invalid # ""
          THEN /\ chat_last' = [op |-> "execute", message |-> message,
                                reply |-> [kind |-> "none", text |-> ""],
                                raised |-> invalid, detail |-> ""]
               /\ UNCHANGED <<agent_history, repo_calls, turns>>
          ELSE LET r == ExecuteTry(agent_history, agent_max_size, message, reply) IN
               /\ repo_calls' = repo_calls + 1
               /\ agent_history' = r.history
               /\ turns' = IF r.raised = "" THEN turns + 1 ELSE turns
               /\ chat_last' = [op |-> "execute", message |-> message, reply |-> reply,
                                raised |-> r.raised, detail |-> r.detail]
    /\ UNCHANGED <<agent_live, agent_max_size>>
    /\ UNCHANGED notChat

\* Agent.clear_history()
ClearHistory ==
    /\ agent_live
    /\ agent_history' = <<>>
    /\ chat_last' = [op |-> "clear_history", message |-> [is_str |-> TRUE, text |-> ""],
                     reply |-> [kind |-> "none", text |-> ""], raised |-> "",
                     detail |-> ""]
    /\ UNCHANGED <<agent_live, agent_max_size, repo_calls, turns>>
    /\ UNCHANGED notChat

ChatNext ==
    \/ CreateAgent
    \/ ChatExecute
    \/ ClearHistory

ChatSpecInit == ChatInit /\ HistoryInit /\ RetryIdle /\ MetricsInit /\ OthersInit

SpecChat == ChatSpecInit /\ [][ChatNext]_vars

\* ------------------------------------------------------------------------
\* MetricsCollector (src/infra/config/metrics.py)
\* ------------------------------------------------------------------------
\* tokens_used is None
NoTokens == -1

ChatMetricsRecords ==
    {r \in [model : {"model-a"}, latency_ms : {100, 200, 300},
              tokens_used : {NoTokens, 50}, success : BOOLEAN] :
        r.tokens_used = NoTokens <=> r.latency_ms = 100}

\* MetricsCollector(): __init__(self) takes no argument, so a call that
\* passes max_metrics (max_metrics > 0 here, 0 is "not passed") raises
\* TypeError.
MetricsCollectorNew ==
    \E max_metrics \in 0..(MaxRecords - 1) :
        /\ IF max_metrics = 0
           THEN /\ collector_live' = TRUE
                /\ metrics' = <<>>
                /\ mc_last' = [op |-> "new", max_metrics |-> 0, raised |-> ""]
                /\ summary' = NoSummary
           ELSE /\ collector_live' = FALSE
                /\ metrics' = <<>>
                /\ mc_last' = [op |-> "new", max_metrics |-> max_metrics,
                               raised |-> "TypeError"]
                /\ summary' = NoSummary
        /\ UNCHANGED gs
        /\ UNCHANGED notMetrics

\* MetricsCollector.add(metrics)
MetricsAdd ==
    /\ collector_live
    /\ Len(metrics) < MaxRecords
    /\ \E m \in ChatMetricsRecords : metrics' = Append(metrics, m)
    /\ mc_last' = [op |-> "add", max_metrics |-> 0, raised |-> ""]
    /\ summary' = NoSummary
    /\ UNCHANGED <<collector_live, gs>>
    /\ UNCHANGED notMetrics

\* MetricsCollector.get_all(): a copy of the list.
get_all == metrics

\* MetricsCollector.clear()
MetricsClear ==
    /\ collector_live
    /\ metrics' = <<>>
    /\ mc_last' = [op |-> "clear", max_metrics |-> 0, raised |-> ""]
    /\ summary' = NoSummary
    /\ UNCHANGED <<collector_live, gs>>
    /\ UNCHANGED notMetrics

\* A Python float that is the quotient a / b, kept as the pair (a, b).
TrueDiv(a, b) == [num |-> a, den |-> b]
FloatTimes(q, k) == [num |-> q.num * k, den |-> q.den]
FloatEq(x, y) == x.num * y.den = y.num * x.den

RECURSIVE SumSeq(_)
\* sum(s)
SumSeq(s) == IF s = <<>> THEN 0 ELSE s[1] + SumSeq(Tail(s))

\* min(s) and max(s) of a non-empty list
MinSeq(s) == CHOOSE x \in {s[i] : i \in DOMAIN s} : \A i \in DOMAIN s : x <= s[i]
MaxSeq(s) == CHOOSE x \in {s[i] : i \in DOMAIN s} : \A i \in DOMAIN s : x >= s[i]

RECURSIVE SuccessfulCount(_)
\* sum(1 for m in self._metrics if m.success)
SuccessfulCount(ms) ==
    IF ms = <<>> THEN 0
    ELSE (IF ms[1].success THEN 1 ELSE 0) + SuccessfulCount(Tail(ms))

\* [m.latency_ms for m in self._metrics]
LatenciesOf(ms) == [i \in 1..Len(ms) |-> ms[i].latency_ms]

RECURSIVE TotalTokensAll(_)
\* The sum of tokens_used taken over every record.
TotalTokensAll(ms) ==
    IF ms = <<>> THEN 0 ELSE ms[1].tokens_used + TotalTokensAll(Tail(ms))

RECURSIVE TotalTokens(_)
\* sum(m.tokens_used for m in self._metrics if m.tokens_used is not None)
TotalTokens(ms) ==
    IF ms = <<>> THEN 0
    ELSE (IF ms[1].tokens_used # NoTokens THEN ms[1].tokens_used ELSE 0)
             + TotalTokens(Tail(ms))

SummaryKeys ==
    {"total_requests", "successful", "failed", "success_rate", "avg_latency_ms",
     "min_latency_ms", "max_latency_ms", "total_tokens"}

\* `return {"total_requests": 0}`
EmptySummary ==
    [keys |-> {"total_requests"}, total_requests |-> 0, successful |-> 0,
     failed |-> 0, success_rate |-> TrueDiv(0, 1), avg_latency_ms |-> TrueDiv(0, 1),
     min_latency_ms |-> 0, max_latency_ms |-> 0, total_tokens |-> 0, raised |-> ""]

\* avg_latency = sum(latencies) / len(latencies) on an empty list
SummaryRaised(exc) == [EmptySummary EXCEPT !.keys = {}, !.raised = exc]

\* The dictionary returned at the end of get_summary, from its locals.
SummaryDict(total_requests, successful, failed, latencies, total_tokens) ==
    [keys |-> SummaryKeys,
     total_requests |-> total_requests,
     successful |-> successful,
     failed |-> failed,
     success_rate |-> FloatTimes(TrueDiv(successful, total_requests), 100),
     avg_latency_ms |-> TrueDiv(SumSeq(latencies), Len(latencies)),
     min_latency_ms |-> MinSeq(latencies),
     max_latency_ms |-> MaxSeq(latencies),
     total_tokens |-> total_tokens,
     raised |-> ""]

\* get_summary() run from its first line to its return with nothing in
\* between: every statement reads the same list ms.
get_summary(ms) ==
    IF ms = <<>> THEN EmptySummary
    ELSE SummaryDict(Len(ms), SuccessfulCount(ms), Len(ms) - SuccessfulCount(ms),
                     LatenciesOf(ms), TotalTokens(ms))

\* MetricsCollector.get_summary() called by the only thread there is.
MetricsGetSummary ==
    /\ collector_live
    /\ summary' = get_summary(metrics)
    /\ mc_last' = [op |-> "get_summary", max_metrics |-> 0, raised |-> ""]
    /\ UNCHANGED <<collector_live, metrics, gs>>
    /\ UNCHANGED notMetrics

MetricsNext ==
    \/ MetricsCollectorNew
    \/ MetricsAdd
    \/ MetricsClear
    \/ MetricsGetSummary

MetricsSpecInit == MetricsInit /\ HistoryInit /\ RetryIdle /\ ChatInit /\ OthersInit

SpecMetrics == MetricsSpecInit /\ [][MetricsNext]_vars

\* ------------------------------------------------------------------------
\* MetricsCollector.get_summary statement by statement, while other threads
\* call add and clear (src/infra/config/metrics.py has no lock)
\* ------------------------------------------------------------------------
\* `if not self._metrics: return {"total_requests": 0}`
GetSummaryCheck ==
    /\ collector_live
    /\ gs.pc = "idle"
    /\ IF metrics = <<>>
       THEN /\ summary' = EmptySummary
            /\ gs' = GsIdle
       ELSE /\ summary' = NoSummary
            /\ gs' = [GsIdle EXCEPT !.pc = "len"]
    /\ UNCHANGED <<collector_live, metrics, mc_last>>
    /\ UNCHANGED notMetrics

\* `total_requests = len(self._metrics)`
GetSummaryLen ==
    /\ gs.pc = "len"
    /\ gs' = [gs EXCEPT !.total_requests = Len(metrics), !.pc = "successful"]
    /\ UNCHANGED <<collector_live, metrics, mc_last, summary>>
    /\ UNCHANGED notMetrics

\* `successful = sum(...)` and `failed = total_requests - successful`
GetSummarySuccessful ==
    /\ gs.pc = "successful"
    /\ gs' = [gs EXCEPT !.successful = SuccessfulCount(metrics),
                        !.failed = gs.total_requests - SuccessfulCount(metrics),
                        !.pc = "latencies"]
    /\ UNCHANGED <<collector_live, metrics, mc_last, summary>>
    /\ UNCHANGED notMetrics

\* `latencies = [...]`, then the average, minimum and maximum of that list;
\* the average of an empty list raises ZeroDivisionError.
GetSummaryLatencies ==
    /\ gs.pc = "latencies"
    /\ IF metrics = <<>>
       THEN /\ summary' = SummaryRaised("ZeroDivisionError")
            /\ gs' = GsIdle
       ELSE /\ gs' = [gs EXCEPT !.latencies = LatenciesOf(metrics), !.pc = "tokens"]
            /\ UNCHANGED summary
    /\ UNCHANGED <<collector_live, metrics, mc_last>>
    /\ UNCHANGED notMetrics

\* `total_tokens = sum(...)` and the return of the dictionary
GetSummaryTokens ==
    /\ gs.pc = "tokens"
    /\ summary' = SummaryDict(gs.total_requests, gs.successful, gs.failed,
                              gs.latencies, TotalTokens(metrics))
    /\ gs' = GsIdle
    /\ UNCHANGED <<collector_live, metrics, mc_last>>
    /\ UNCHANGED notMetrics

MetricsConcNext ==
    \/ MetricsAdd
    \/ MetricsClear
    \/ GetSummaryCheck
    \/ GetSummaryLen
    \/ GetSummarySuccessful
    \/ GetSummaryLatencies
    \/ GetSummaryTokens

\* A collector shared by the threads.
MetricsConcSpecInit ==
    /\ collector_live = TRUE
    /\ metrics = <<>>
    /\ mc_last = [op |-> "new", max_metrics |-> 0, raised |-> ""]
    /\ HistoryInit /\ RetryIdle /\ ChatInit /\ OthersInit

SpecMetricsConc == MetricsConcSpecInit /\ [][MetricsConcNext]_vars

\* ------------------------------------------------------------------------
\* ChatAdapterFactory (src/infra/factories/chat_adapter_factory.py)
\* ------------------------------------------------------------------------
\* Everything but the factory.
notFactory == <<hvars, rvars, cvars, mvars, svars, evars, dvars, ovars, yvars>>

Providers == {"openai", "ollama", "invalid"}

\* Two spellings of one model name and another model.
ModelNames == {"gpt-5", "GPT-5", "phi4"}

\* The model name taken as it is written.
LowerIdentity(model) == model

\* str.lower() of the model names
Lower(model) == IF model = "GPT-5" THEN "gpt-5" ELSE model

\* `cache_key = (model.lower(), provider)`
CacheKey(provider, model) == <<Lower(model), provider>>

\* `cache_key in cls._cache` and `cls._cache[cache_key]`
InCache(key) == \E e \in f_cache : e.key = key
CacheGet(key) == (CHOOSE e \in f_cache : e.key = key).adapter

\* `cls._cache[cache_key] = adapter`
CachePut(key, adapter) ==
    {e \in f_cache : e.key # key} \cup {[key |-> key, adapter |-> adapter]}

\* A thread calls ChatAdapterFactory.create(provider, model).
FactoryCreate(t) ==
    /\ f_th[t].pc = "idle"
    /\ f_next <= MaxCreates
    /\ \E provider \in Providers, model \in ModelNames :
          f_th' = [f_th EXCEPT ![t] = [pc |-> "check", provider |-> provider,
                                       model |-> model, adapter |-> 0, ret |-> 0,
                                       raised |-> "", fresh |-> TRUE]]
    /\ UNCHANGED <<f_cache, f_built, f_next>>
    /\ UNCHANGED <<f_log, notFactory>>

\* `if cache_key in cls._cache: return cls._cache[cache_key]`
FactoryCheck(t) ==
    /\ f_th[t].pc = "check"
    /\ LET key == CacheKey(f_th[t].provider, f_th[t].model) IN
       f_th' = [f_th EXCEPT ![t] =
                   IF InCache(key)
                   THEN [@ EXCEPT !.pc = "idle", !.ret = CacheGet(key)]
                   ELSE [@ EXCEPT !.pc = "construct"]]
    /\ UNCHANGED <<f_cache, f_built, f_next>>
    /\ UNCHANGED <<f_log, notFactory>>

\* The if / elif / else on the provider: a new adapter object, or ValueError.
\* OpenAIChatAdapter() reads OPENAI_API_KEY and raises EnvironmentError when
\* the variable is missing.
FactoryConstruct(t) ==
    /\ f_th[t].pc = "construct"
    /\ \E key_missing \in BOOLEAN :
          IF f_th[t].provider \notin {"openai", "ollama"}
          THEN /\ f_th' = [f_th EXCEPT ![t] = [@ EXCEPT !.pc = "idle", !.raised = "ValueError"]]
               /\ UNCHANGED <<f_built, f_next>>
          ELSE IF f_th[t].provider = "openai" /\ key_missing
          THEN /\ f_th' = [f_th EXCEPT ![t] = [@ EXCEPT !.pc = "idle", !.raised = "EnvironmentError"]]
               /\ UNCHANGED <<f_built, f_next>>
          ELSE /\ f_th' = [f_th EXCEPT ![t] = [@ EXCEPT !.pc = "store", !.adapter = f_next]]
               /\ f_built' = f_built \cup {[key |-> CacheKey(f_th[t].provider, f_th[t].model),
                                             adapter |-> f_next]}
               /\ f_next' = f_next + 1
    /\ UNCHANGED f_cache
    /\ UNCHANGED <<f_log, notFactory>>

\* `cls._cache[cache_key] = adapter` and `return adapter`
FactoryStore(t) ==
    /\ f_th[t].pc = "store"
    /\ f_cache' = CachePut(CacheKey(f_th[t].provider, f_th[t].model), f_th[t].adapter)
    /\ f_th' = [f_th EXCEPT ![t] = [@ EXCEPT !.pc = "idle", !.ret = f_th[t].adapter]]
    /\ UNCHANGED <<f_built, f_next>>
    /\ UNCHANGED <<f_log, notFactory>>

\* ChatAdapterFactory.clear_cache(); the creates that returned before it are
\* no longer compared with those that come after.
FactoryClearCache ==
    /\ f_cache # {}
    /\ f_cache' = {}
    /\ f_built' = {}
    /\ f_th' = [t \in Threads |-> [f_th[t] EXCEPT !.fresh = FALSE]]
    /\ UNCHANGED f_next
    /\ UNCHANGED <<f_log, notFactory>>

FactoryNext ==
    \/ \E t \in Threads : FactoryCreate(t)
    \/ \E t \in Threads : FactoryCheck(t)
    \/ \E t \in Threads : FactoryConstruct(t)
    \/ \E t \in Threads : FactoryStore(t)
    \/ FactoryClearCache

FactorySpecInit ==
    /\ FactoryInit
    /\ HistoryInit /\ RetryIdle /\ ChatInit /\ MetricsInit /\ SummaryInit /\ EnvInit
    /\ FilterInit /\ OllamaInit /\ RetriesInit /\ LaterInit

SpecFactory == FactorySpecInit /\ [][FactoryNext]_vars

\* ------------------------------------------------------------------------
\* ChatAdapterFactory, one call at a time
\* ------------------------------------------------------------------------
\* ChatAdapterFactory.create(provider, model) from entry to exit, lines 44-63:
\* [raised, ret, cache, built].  key_missing: OPENAI_API_KEY is not set, so
\* OpenAIChatAdapter() raises EnvironmentError.
create(provider, model, key_missing) ==
    LET cache_key == CacheKey(provider, model) IN
    IF InCache(cache_key)
    THEN [raised |-> "", ret |-> CacheGet(cache_key), cache |-> f_cache, built |-> FALSE]
    ELSE IF provider = "openai" /\ key_missing
    THEN [raised |-> "EnvironmentError", ret |-> 0, cache |-> f_cache, built |-> FALSE]
    ELSE IF provider \notin {"openai", "ollama"}
    THEN [raised |-> "ValueError", ret |-> 0, cache |-> f_cache, built |-> FALSE]
    ELSE [raised |-> "", ret |-> f_next, cache |-> CachePut(cache_key, f_next),
          built |-> TRUE]

\* The effect of a create call on the factory.
CreateEffect(provider, model, r) ==
    /\ f_cache' = r.cache
    /\ f_built' = IF r.built
                  THEN f_built \cup {[key |-> CacheKey(provider, model), adapter |-> r.ret]}
                  ELSE f_built
    /\ f_next' = IF r.built THEN f_next + 1 ELSE f_next

FactoryCreateCall ==
    /\ Len(f_log) <= MaxCreates
    /\ \E provider \in Providers, model \in ModelNames, key_missing \in BOOLEAN :
          LET r == create(provider, model, key_missing) IN
          /\ CreateEffect(provider, model, r)
          /\ f_log' = Append(f_log, [op |-> "create", provider |-> provider,
                                     model |-> model, raised |-> r.raised,
                                     ret |-> r.ret, before |-> f_cache,
                                     after |-> r.cache])
    /\ UNCHANGED f_th
    /\ UNCHANGED notFactory

\* ChatAdapterFactory.clear_cache()
FactoryClearCacheCall ==
    /\ Len(f_log) <= MaxCreates
    /\ f_cache' = {}
    /\ f_built' = {}
    /\ f_log' = Append(f_log, [op |-> "clear_cache", provider |-> "", model |-> "",
                               raised |-> "", ret |-> 0, before |-> f_cache,
                               after |-> {}])
    /\ UNCHANGED <<f_th, f_next>>
    /\ UNCHANGED notFactory

FactorySeqNext ==
    \/ FactoryCreateCall
    \/ FactoryClearCacheCall

FactorySeqSpecInit ==
    /\ FactoryInit
    /\ HistoryInit /\ RetryIdle /\ ChatInit /\ MetricsInit /\ SummaryInit /\ EnvInit
    /\ FilterInit /\ OllamaInit /\ RetriesInit /\ LaterInit

SpecFactorySeq == FactorySeqSpecInit /\ [][FactorySeqNext]_vars

\* ------------------------------------------------------------------------
\* EnvironmentConfig (src/infra/config/environment.py), one call at a time
\* ------------------------------------------------------------------------
\* Everything but EnvironmentConfig and the environment.
notEnv == <<hvars, rvars, cvars, mvars, svars, fvars, dvars, ovars, yvars>>

\* str.strip() of the values of the model
StripValue(v) == IF v = " " THEN "" ELSE IF v = " v " THEN "v" ELSE v

\* `not api_key or not api_key.strip()`: missing, empty or whitespace-only
IsBlank(v) == v = Missing \/ v = "" \/ StripValue(v) = ""

\* load_dotenv(override=...): the entries of the file are put into the
\* environment; without override a variable that is set keeps its value.
LoadDotenv(env, override) ==
    [k \in Keys |-> IF dotenv[k] # Missing /\ (override \/ env[k] = Missing)
                    THEN dotenv[k] ELSE env[k]]

\* The environment after `if not cls._initialized: cls()`.
EnvironAfterCls == IF e_initialized THEN environ ELSE LoadDotenv(environ, FALSE)

\* `if not cls._initialized: cls()` run by the only thread there is: __new__
\* creates the instance if there is none, __init__ loads the .env file.
ClsIfNotInitialized ==
    /\ environ' = EnvironAfterCls
    /\ e_initialized' = TRUE
    /\ IF ~e_initialized /\ e_instance = 0
       THEN /\ e_instance' = e_next
            /\ e_next' = e_next + 1
            /\ e_created' = e_created + 1
       ELSE UNCHANGED <<e_instance, e_next, e_created>>
    /\ e_loads' = IF e_initialized THEN e_loads ELSE e_loads + 1

\* The ghost blank_since after a step that leaves the cache entries in place,
\* and after one that clears the cache.
BlankSinceKept == blank_since' = [k \in Keys |-> blank_since[k] /\ IsBlank(environ'[k])]
BlankSinceCleared == blank_since' = [k \in Keys |-> IsBlank(environ'[k])]

\* The process changes a variable of its environment (os.environ[k] = v,
\* del os.environ[k]).
SetEnv ==
    /\ \E k \in Keys, v \in EnvValues : environ' = [environ EXCEPT ![k] = v]
    /\ BlankSinceKept
    /\ UNCHANGED <<dotenv, e_instance, e_initialized, e_cache, e_lock, e_last, s_th,
                   e_epoch, e_created, e_loads, e_next>>
    /\ UNCHANGED notEnv

\* EnvironmentConfig.get_api_key(key)
GetApiKey ==
    /\ \E key \in Keys :
          LET api_key == EnvironAfterCls[key] IN
          IF e_cache[key] # Missing
          THEN /\ e_last' = [op |-> "get_api_key", key |-> key, default |-> NoValue,
                             raised |-> "", value |-> e_cache[key]]
               /\ UNCHANGED e_cache
          ELSE IF IsBlank(api_key)
          THEN /\ e_last' = [op |-> "get_api_key", key |-> key, default |-> NoValue,
                             raised |-> "EnvironmentError", value |-> NoValue]
               /\ UNCHANGED e_cache
          ELSE /\ e_last' = [op |-> "get_api_key", key |-> key, default |-> NoValue,
                             raised |-> "", value |-> StripValue(api_key)]
               /\ e_cache' = [e_cache EXCEPT ![key] = StripValue(api_key)]
    /\ ClsIfNotInitialized
    /\ BlankSinceKept
    /\ UNCHANGED <<dotenv, e_lock, s_th, e_epoch>>
    /\ UNCHANGED notEnv

\* The defaults passed to get_env: none, or a text.
Defaults == {NoValue, "d", "e"}

\* EnvironmentConfig.get_env(key, default)
GetEnv ==
    /\ \E key \in Keys, default \in Defaults :
          LET getenv == IF EnvironAfterCls[key] # Missing THEN EnvironAfterCls[key]
                       ELSE default
          IN
          IF e_cache[key] # Missing
          THEN /\ e_last' = [op |-> "get_env", key |-> key, default |-> default,
                             raised |-> "", value |-> e_cache[key]]
               /\ UNCHANGED e_cache
          ELSE IF getenv # NoValue /\ StripValue(getenv) # ""
          THEN /\ e_last' = [op |-> "get_env", key |-> key, default |-> default,
                             raised |-> "", value |-> StripValue(getenv)]
               /\ e_cache' = [e_cache EXCEPT ![key] = StripValue(getenv)]
          ELSE /\ e_last' = [op |-> "get_env", key |-> key, default |-> default,
                             raised |-> "",
                             value |-> IF default # NoValue THEN default ELSE getenv]
               /\ UNCHANGED e_cache
    /\ ClsIfNotInitialized
    /\ BlankSinceKept
    /\ UNCHANGED <<dotenv, e_lock, s_th, e_epoch>>
    /\ UNCHANGED notEnv

\* EnvironmentConfig.reload()
Reload ==
    /\ environ' = LoadDotenv(environ, TRUE)
    /\ e_cache' = [k \in Keys |-> Missing]
    /\ e_last' = [op |-> "reload", key |-> "", default |-> NoValue, raised |-> "",
                  value |-> NoValue]
    /\ BlankSinceCleared
    /\ UNCHANGED <<dotenv, e_instance, e_initialized, e_lock, s_th, e_epoch, e_created,
                   e_loads, e_next>>
    /\ UNCHANGED notEnv

\* EnvironmentConfig.clear_cache()
ClearCache ==
    /\ e_cache' = [k \in Keys |-> Missing]
    /\ e_last' = [op |-> "clear_cache", key |-> "", default |-> NoValue, raised |-> "",
                  value |-> NoValue]
    /\ UNCHANGED <<environ, dotenv, e_instance, e_initialized, e_lock, s_th, e_epoch,
                   e_created, e_loads, e_next>>
    /\ BlankSinceCleared
    /\ UNCHANGED notEnv

\* What reset() assigns under the lock.
ResetClass ==
    /\ e_instance' = 0
    /\ e_initialized' = FALSE
    /\ e_cache' = [k \in Keys |-> Missing]
    /\ e_epoch' = e_epoch + 1
    /\ e_created' = 0
    /\ e_loads' = 0

\* EnvironmentConfig.reset()
Reset ==
    /\ e_epoch < MaxResets
    /\ ResetClass
    /\ e_last' = [op |-> "reset", key |-> "", default |-> NoValue, raised |-> "",
                  value |-> NoValue]
    /\ UNCHANGED <<environ, dotenv, e_lock, s_th, e_next>>
    /\ BlankSinceCleared
    /\ UNCHANGED notEnv

EnvNext ==
    \/ SetEnv
    \/ GetApiKey
    \/ GetEnv
    \/ Reload
    \/ ClearCache
    \/ Reset

EnvSpecInit ==
    /\ EnvIdle
    /\ dotenv \in DotenvFiles
    /\ HistoryInit /\ RetryIdle /\ ChatInit /\ MetricsInit /\ SummaryInit /\ FactoryInit
    /\ FilterInit /\ OllamaInit /\ RetriesInit /\ LaterInit

SpecEnv == EnvSpecInit /\ [][EnvNext]_vars

\* ------------------------------------------------------------------------
\* EnvironmentConfig() called by several threads: __new__ and __init__
\* statement by statement (src/infra/config/environment.py, lines 20-36)
\* ------------------------------------------------------------------------
\* What the steps of a construction leave alone.
SingletonFrame == <<dotenv, e_cache, e_last, blank_since, e_epoch>>

\* EnvironmentConfig() is called; `if cls._instance is None` in __new__.
NewCheck(t) ==
    /\ s_th[t].pc \in {"idle", "done"}
    /\ s_th' = [s_th EXCEPT ![t] =
                   [pc |-> IF e_instance = 0 THEN "new_lock" ELSE "new_return",
                    ret |-> 0, epoch |-> e_epoch, raced |-> FALSE]]
    /\ UNCHANGED <<environ, e_instance, e_initialized, e_lock, e_created, e_loads, e_next>>
    /\ UNCHANGED SingletonFrame
    /\ UNCHANGED notEnv

\* `with cls._lock:` in __new__
NewLock(t) ==
    /\ s_th[t].pc = "new_lock"
    /\ e_lock = 0
    /\ e_lock' = t
    /\ s_th' = [s_th EXCEPT ![t] = [@ EXCEPT !.pc = "new_check2"]]
    /\ UNCHANGED <<environ, e_instance, e_initialized, e_created, e_loads, e_next>>
    /\ UNCHANGED SingletonFrame
    /\ UNCHANGED notEnv

\* NewCheck2 without the second `if cls._instance is None`.
NewCheck2Unchecked(t) ==
    /\ s_th[t].pc = "new_check2"
    /\ e_instance' = e_next
    /\ e_next' = e_next + 1
    /\ e_created' = e_created + 1
    /\ e_lock' = 0
    /\ s_th' = [s_th EXCEPT ![t] = [@ EXCEPT !.pc = "new_return", !.raced = e_instance # 0]]
    /\ UNCHANGED <<environ, e_initialized, e_loads>>
    /\ UNCHANGED SingletonFrame
    /\ UNCHANGED notEnv

\* The body of the with statement in __new__: the second check, the creation
\* of the instance, and the release of the lock.
NewCheck2(t) ==
    /\ s_th[t].pc = "new_check2"
    /\ IF e_instance = 0
       THEN /\ e_instance' = e_next
            /\ e_next' = e_next + 1
            /\ e_created' = e_created + 1
       ELSE UNCHANGED <<e_instance, e_next, e_created>>
    /\ e_lock' = 0
    /\ s_th' = [s_th EXCEPT ![t] = [@ EXCEPT !.pc = "new_return", !.raced = e_instance # 0]]
    /\ UNCHANGED <<environ, e_initialized, e_loads>>
    /\ UNCHANGED SingletonFrame
    /\ UNCHANGED notEnv

\* `return cls._instance`; __init__ runs on what __new__ returned when that
\* is an EnvironmentConfig (not None).
NewReturn(t) ==
    /\ s_th[t].pc = "new_return"
    /\ s_th' = [s_th EXCEPT ![t] =
                   [@ EXCEPT !.ret = e_instance,
                             !.pc = IF e_instance = 0 THEN "done" ELSE "init_check"]]
    /\ UNCHANGED <<environ, e_instance, e_initialized, e_lock, e_created, e_loads, e_next>>
    /\ UNCHANGED SingletonFrame
    /\ UNCHANGED notEnv

\* `if not EnvironmentConfig._initialized` in __init__
InitCheck(t) ==
    /\ s_th[t].pc = "init_check"
    /\ s_th' = [s_th EXCEPT ![t] =
                   [@ EXCEPT !.pc = IF e_initialized THEN "done" ELSE "init_lock"]]
    /\ UNCHANGED <<environ, e_instance, e_initialized, e_lock, e_created, e_loads, e_next>>
    /\ UNCHANGED SingletonFrame
    /\ UNCHANGED notEnv

\* `with EnvironmentConfig._lock:` in __init__
InitLock(t) ==
    /\ s_th[t].pc = "init_lock"
    /\ e_lock = 0
    /\ e_lock' = t
    /\ s_th' = [s_th EXCEPT ![t] = [@ EXCEPT !.pc = "init_check2"]]
    /\ UNCHANGED <<environ, e_instance, e_initialized, e_created, e_loads, e_next>>
    /\ UNCHANGED SingletonFrame
    /\ UNCHANGED notEnv

\* The body of the with statement in __init__: the second check,
\* load_dotenv(), the flag, and the release of the lock.
InitCheck2(t) ==
    /\ s_th[t].pc = "init_check2"
    /\ IF ~e_initialized
       THEN /\ environ' = LoadDotenv(environ, FALSE)
            /\ e_loads' = e_loads + 1
            /\ e_initialized' = TRUE
       ELSE UNCHANGED <<environ, e_loads, e_initialized>>
    /\ e_lock' = 0
    /\ s_th' = [s_th EXCEPT ![t] = [@ EXCEPT !.pc = "done"]]
    /\ UNCHANGED <<e_instance, e_created, e_next>>
    /\ UNCHANGED SingletonFrame
    /\ UNCHANGED notEnv

\* EnvironmentConfig.reset() called by some thread: the three assignments
\* are made under the lock.
ResetLocked ==
    /\ e_epoch < MaxResets
    /\ e_lock = 0
    /\ ResetClass
    /\ UNCHANGED <<environ, dotenv, e_lock, e_last, blank_since, s_th, e_next>>
    /\ UNCHANGED notEnv

SingletonNext ==
    \/ \E t \in Threads : NewCheck(t)
    \/ \E t \in Threads : NewLock(t)
    \/ \E t \in Threads : NewCheck2(t)
    \/ \E t \in Threads : NewReturn(t)
    \/ \E t \in Threads : InitCheck(t)
    \/ \E t \in Threads : InitLock(t)
    \/ \E t \in Threads : InitCheck2(t)
    \/ ResetLocked

SingletonSpecInit ==
    /\ EnvIdle
    /\ dotenv \in DotenvFiles
    /\ HistoryInit /\ RetryIdle /\ ChatInit /\ MetricsInit /\ SummaryInit /\ FactoryInit
    /\ FilterInit /\ OllamaInit /\ RetriesInit /\ LaterInit

SpecSingleton == SingletonSpecInit /\ [][SingletonNext]_vars

\* ------------------------------------------------------------------------
\* SensitiveDataFilter (src/infra/config/sensitive_data_filter.py)
\* ------------------------------------------------------------------------
\* Everything but the filter.
notFilter == <<hvars, rvars, cvars, mvars, svars, fvars, evars, ovars, yvars>>

\* A text is a sequence of characters.  The texts of the model are written
\* with the letters and signs below; the placeholders add the capitals.
LowerLetters == {"a", "c", "d", "e", "o", "p", "r", "s", "t", "w"}
UpperLetters == {"A", "C", "D", "E", "O", "P", "R", "S", "T", "W"}
Signs == {"_", "[", "]", ":", "=", " "}
Alphabet == LowerLetters \cup UpperLetters \cup Signs

\* re.IGNORECASE: the lower-case form of a character
ToLower(c) ==
    CASE c = "A" -> "a" [] c = "C" -> "c" [] c = "D" -> "d" [] c = "E" -> "e"
      [] c = "O" -> "o" [] c = "P" -> "p" [] c = "R" -> "r" [] c = "S" -> "s"
      [] c = "T" -> "t" [] c = "W" -> "w" [] OTHER -> c

\* The character classes of the patterns, cut down to the alphabet.
WordChars == LowerLetters \cup UpperLetters \cup {"_"}
Whitespace == {" "}

\* f"[{pattern_name.upper()}_REDACTED]" and the literal placeholders
SecretRedacted ==
    <<"[", "S", "E", "C", "R", "E", "T", "_", "R", "E", "D", "A", "C", "T", "E", "D", "]">>
PasswordRedacted ==
    <<"[", "P", "A", "S", "S", "W", "O", "R", "D", "_", "R", "E", "D", "A", "C", "T",
      "E", "D", "]">>

\* _PATTERNS, in order, without the patterns that cannot match a text
\* written in the alphabet: jwt_token (needs "y", "J"), api_key ("i"),
\* bearer_token ("b"), auth_header ("u", "h"), url_with_password ("h", "/"),
\* email ("@"), cnpj, cpf, rg, phone_br, credit_card, cvv and ipv4 (digits).
\* Both remaining patterns are a keyword group, a run of separators and a run
\* of at least `min` value characters, replaced by the keyword and a
\* placeholder.
Patterns ==
    << [name |-> "secret",
        keywords |-> << <<"s", "e", "c", "r", "e", "t">>,
                        <<"s", "e", "c", "r", "e", "t", "_", "k", "e", "y">> >>,
        seps |-> Whitespace \cup {":", "="},
        value |-> WordChars,
        min |-> 8,
        placeholder |-> SecretRedacted],
       [name |-> "password",
        keywords |-> << <<"p", "a", "s", "s", "w", "o", "r", "d">>,
                        <<"s", "e", "n", "h", "a">>,
                        <<"p", "w", "d">>,
                        <<"p", "a", "s", "s">> >>,
        seps |-> Whitespace \cup {":", "=", "["},
        value |-> Alphabet \ (Whitespace \cup {"]"}),
        min |-> 3,
        placeholder |-> PasswordRedacted] >>

\* Does the keyword stand at position i of the text, whatever the case?
StartsWith(text, i, kw) ==
    /\ i + Len(kw) - 1 <= Len(text)
    /\ \A k \in 1..Len(kw) : ToLower(text[i + k - 1]) = kw[k]

RECURSIVE RunLen(_, _, _)
\* The length of the longest run of characters of the class from position j.
RunLen(text, j, class) ==
    IF j > Len(text) \/ text[j] \notin class THEN 0
    ELSE 1 + RunLen(text, j + 1, class)

NoMatch == [kwlen |-> 0, end |-> 0]

\* The match of keyword kw at position i: the separators are matched
\* greedily and given back one by one until a long enough run of value
\* characters follows; that run is taken whole.
MatchKeyword(rule, text, i, kw) ==
    IF ~StartsWith(text, i, kw) THEN NoMatch
    ELSE LET j == i + Len(kw)
             lens == {n \in 0..RunLen(text, j, rule.seps) :
                         RunLen(text, j + n, rule.value) >= rule.min}
         IN  IF lens = {} THEN NoMatch
             ELSE LET n == CHOOSE x \in lens : \A y \in lens : x >= y
                  IN [kwlen |-> Len(kw),
                      end |-> j + n + RunLen(text, j + n, rule.value) - 1]

RECURSIVE MatchFrom(_, _, _, _)
\* The alternatives of the keyword group are tried in order from the k-th.
MatchFrom(rule, text, i, k) ==
    IF k > Len(rule.keywords) THEN NoMatch
    ELSE LET m == MatchKeyword(rule, text, i, rule.keywords[k])
         IN IF m # NoMatch THEN m ELSE MatchFrom(rule, text, i, k + 1)

RECURSIVE SubFrom(_, _, _)
\* pattern.sub(r"\1[..._REDACTED]", text) from position i on: the leftmost
\* match is replaced by its keyword and the placeholder, and the scan goes on
\* after the match.
SubFrom(rule, text, i) ==
    IF i > Len(text) THEN <<>>
    ELSE LET m == MatchFrom(rule, text, i, 1)
         IN IF m # NoMatch
            THEN SubSeq(text, i, i + m.kwlen - 1) \o rule.placeholder
                    \o SubFrom(rule, text, m.end + 1)
            ELSE <<text[i]>> \o SubFrom(rule, text, i + 1)

RECURSIVE ApplyPatterns(_, _)
\* `for pattern_name, pattern in cls._PATTERNS.items()`
ApplyPatterns(rules, text) ==
    IF rules = <<>> THEN text
    ELSE ApplyPatterns(Tail(rules), SubFrom(rules[1], text, 1))

\* The body of _filter_cached, without the cache.
FilterUncached(text) == ApplyPatterns(Patterns, text)

\* functools.lru_cache: lookup, refresh of a used entry, insertion with the
\* eviction of the least recently used entry.
LruHit(cache, text) == \E i \in DOMAIN cache : cache[i].text = text

\* The result kept in the most recently used entry.
LruGetNewest(cache, text) == cache[Len(cache)].result

LruGet(cache, text) == cache[CHOOSE i \in DOMAIN cache : cache[i].text = text].result

LruTouch(cache, text) ==
    LET i == CHOOSE j \in DOMAIN cache : cache[j].text = text
    IN SubSeq(cache, 1, i - 1) \o SubSeq(cache, i + 1, Len(cache)) \o <<cache[i]>>

LruPut(cache, maxsize, text, result) ==
    LET put == Append(cache, [text |-> text, result |-> result])
    IN IF Len(put) > maxsize THEN Tail(put) ELSE put

\* The texts handed to filter: the empty text, texts without anything
\* sensitive, passwords and a secret.
FilterTexts ==
    { <<>>,
      <<"a", "a", "a">>,
      <<"p", "w", "d", ":", " ", "a", "a">>,
      <<"p", "w", "d", "=", "a", "a", "a">>,
      <<"p", "a", "s", "s", "w", "o", "r", "d">>,
      <<"s", "e", "c", "r", "e", "t", "=", "a", "a", "a", "a", "a", "a", "a", "a">> }

\* SensitiveDataFilter.filter(text) on a text of its own (src = "input") or
\* on the text that the previous filter call returned (src = "output").
FilterOf(text, src, passes) ==
    IF text = <<>>
    THEN /\ sdf_last' = [op |-> "filter", text |-> text, n |-> 0, result |-> text,
                         src |-> src, passes |-> passes, hit |-> FALSE]
         /\ UNCHANGED <<sdf_cache, sdf_overflowed>>
    ELSE IF LruHit(sdf_cache, text)
    THEN /\ sdf_last' = [op |-> "filter", text |-> text, n |-> 0,
                         result |-> LruGet(sdf_cache, text),
                         src |-> src, passes |-> passes, hit |-> TRUE]
         /\ sdf_cache' = LruTouch(sdf_cache, text)
         /\ UNCHANGED sdf_overflowed
    ELSE /\ sdf_last' = [op |-> "filter", text |-> text, n |-> 0,
                         result |-> FilterUncached(text),
                         src |-> src, passes |-> passes, hit |-> FALSE]
         /\ sdf_cache' = LruPut(sdf_cache, MaxCacheSize, text, FilterUncached(text))
         /\ sdf_overflowed' = (sdf_overflowed \/ Len(sdf_cache) = MaxCacheSize)

Filter ==
    /\ \E text \in FilterTexts : FilterOf(text, "input", 1)
    /\ UNCHANGED notFilter

FilterAgain ==
    /\ sdf_last.op = "filter"
    /\ sdf_last.passes < MaxPasses
    /\ FilterOf(sdf_last.result, "output", sdf_last.passes + 1)
    /\ UNCHANGED notFilter

\* SensitiveDataFilter.clear_cache()
FilterClearCache ==
    /\ sdf_cache' = <<>>
    /\ sdf_overflowed' = FALSE
    /\ sdf_last' = [NoFilterCall EXCEPT !.op = "clear_cache"]
    /\ UNCHANGED notFilter

DEFAULT_VISIBLE_CHARS == 4

RECURSIVE Stars(_)
\* "*" * k (the empty text when k <= 0)
Stars(k) == IF k <= 0 THEN <<>> ELSE <<"*">> \o Stars(k - 1)

\* text[-k:]: the last k characters for k > 0 (all of them when the text is
\* shorter), and the whole text for k = 0, because -0 is 0.
NegSlice(text, k) ==
    IF k = 0 THEN text
    ELSE SubSeq(text, Len(text) - Min(k, Len(text)) + 1, Len(text))

\* SensitiveDataFilter.mask_partial(text, visible_chars)
mask_partial(text, visible_chars) ==
    IF Len(text) <= visible_chars THEN Stars(Len(text))
    ELSE Stars(Len(text) - visible_chars) \o NegSlice(text, visible_chars)

MaskTexts ==
    {<<>>, <<"a">>, <<"p", "w", "d">>, <<"p", "w", "d", "a", "s">>}

MaskPartial ==
    /\ \E text \in MaskTexts, visible_chars \in 0..DEFAULT_VISIBLE_CHARS :
          sdf_last' = [op |-> "mask_partial", text |-> text, n |-> visible_chars,
                       result |-> mask_partial(text, visible_chars),
                       src |-> "input", passes |-> 0, hit |-> FALSE]
    /\ UNCHANGED <<sdf_cache, sdf_overflowed>>
    /\ UNCHANGED notFilter

FilterNext ==
    \/ Filter
    \/ FilterAgain
    \/ FilterClearCache
    \/ MaskPartial

FilterSpecInit ==
    /\ FilterInit
    /\ HistoryInit /\ RetryIdle /\ ChatInit /\ MetricsInit /\ SummaryInit /\ FactoryInit
    /\ EnvInit /\ OllamaInit /\ RetriesInit /\ LaterInit

SpecFilter == FilterSpecInit /\ [][FilterNext]_vars

\* ------------------------------------------------------------------------
\* OllamaChatAdapter.chat (src/infra/adapters/Ollama/ollama_chat_adapter.py)
\* ------------------------------------------------------------------------
\* @retry_with_backoff(max_attempts=3, initial_delay=1.0, exceptions=(Exception,))
OllamaMaxAttempts == 3

OllamaRetryArgs ==
    [max_attempts |-> OllamaMaxAttempts, initial_delay |-> 1000, backoff_factor |-> 2,
     exceptions |-> {"Exception"}, jitter |-> TRUE, on_retry |-> FALSE]

\* The values of OLLAMA_MAX_RETRIES that the adapters are constructed with
\* (`int(EnvironmentConfig.get_env("OLLAMA_MAX_RETRIES", "3"))`).
MaxRetriesValues == {1, 3, 5}

\* What one invocation of ollama.chat does: return a response, or raise.
OllamaApiOutcomes == {"ok", "ConnectionError", "TypeError"}

\* The responses: a message with a text, with an empty text or with None as
\* content (the content is an optional str), a response without "message", a
\* message without "content", and None in place of a response; eval_count is
\* present or not.
OllamaResponses ==
    [shape : {"text", "empty", "none_content", "no_message", "no_content", "none"},
     eval_count : {NoTokens, 50}]

\* The record appended by the except clauses.
FailureMetrics == [success |-> FALSE, tokens_used |-> NoTokens]

\* Lines 114-185 of chat for an API call that raised an exception of the
\* type, or (type "ok") returned the response: the exception chat raises
\* ("" when it returns the content) and the records it appends.  In this
\* variant an empty content is not recorded.
ChatHandleUnrecordedEmpty(type, response) ==
    IF type # "ok"
    THEN [raised |-> "ChatException", records |-> <<FailureMetrics>>]
    ELSE IF response.shape \in {"no_message", "no_content", "none"}
    THEN [raised |-> "ChatException", records |-> <<FailureMetrics>>]
    ELSE IF response.shape \in {"empty", "none_content"}
    THEN [raised |-> "ChatException", records |-> <<>>]
    ELSE [raised |-> "",
          records |-> <<[success |-> TRUE, tokens_used |-> response.eval_count]>>]

\* Lines 114-185 of chat.  An exception of the API call goes to
\* `except TypeError` or `except Exception`; a response without the keys to
\* `except KeyError`, None as response to `except TypeError`; an empty or None
\* content raises ChatException inside the try, which `except ChatException`
\* records and re-raises.  Each of these clauses appends one failure record.
\* Otherwise the success record is appended, and the two logging calls after
\* it (str(metrics), content[:100] of a str) do not raise.
ChatHandle(type, response) ==
    IF type # "ok"
    THEN [raised |-> "ChatException", records |-> <<FailureMetrics>>]
    ELSE IF response.shape \in {"no_message", "no_content", "none"}
    THEN [raised |-> "ChatException", records |-> <<FailureMetrics>>]
    ELSE IF response.shape \in {"empty", "none_content"}
    THEN [raised |-> "ChatException", records |-> <<FailureMetrics>>]
    ELSE [raised |-> "",
          records |-> <<[success |-> TRUE, tokens_used |-> response.eval_count]>>]

\* chat(...) up to the call of the decorated __call_ollama_api: the wrapper
\* starts its loop (retry.py lines 49-52).
OllamaChat ==
    /\ o_pc = "idle"
    /\ o_done < MaxTurns
    /\ o_pc' = "api"
    /\ retry_args' = OllamaRetryArgs
    /\ func' \in [1..OllamaMaxAttempts -> OllamaApiOutcomes]
    /\ pc' = "call"
    /\ attempt' = 1
    /\ delay' = OllamaRetryArgs.initial_delay
    /\ last_exception' = 0
    /\ calls' = 0
    /\ events' = <<>>
    /\ outcome' = [kind |-> "none", value |-> 0]
    /\ UNCHANGED <<o_metrics, o_done, o_last>>
    /\ UNCHANGED <<hvars, cvars, mvars, svars, fvars, evars, dvars, yvars>>

\* The wrapper has returned or raised: the rest of chat.
OllamaChatEnd ==
    /\ o_pc = "api"
    /\ pc = "done"
    /\ \E response \in OllamaResponses :
          LET type == IF outcome.kind = "return" THEN "ok" ELSE FuncOutcome(outcome.value)
              h == ChatHandle(type, response)
          IN /\ o_metrics' = o_metrics \o h.records
             /\ o_last' = [op |-> "chat", raised |-> h.raised, before |-> Len(o_metrics),
                           attempts |-> calls]
    /\ o_pc' = "idle"
    /\ o_done' = o_done + 1
    /\ UNCHANGED rvars
    /\ UNCHANGED <<hvars, cvars, mvars, svars, fvars, evars, dvars, yvars>>

OllamaNext ==
    \/ OllamaChat
    \/ Attempt
    \/ OnRetry
    \/ Sleep
    \/ OllamaChatEnd

OllamaSpecInit ==
    /\ OllamaInit
    /\ HistoryInit /\ RetryIdle /\ ChatInit /\ MetricsInit /\ SummaryInit /\ FactoryInit
    /\ EnvInit /\ FilterInit /\ LaterInit
    /\ o_max_retries \in MaxRetriesValues

SpecOllama == OllamaSpecInit /\ [][OllamaNext]_vars

\* ------------------------------------------------------------------------
\* EnvironmentConfig.get_api_key / get_env statement by statement, while
\* other threads call clear_cache, reload and reset
\* ------------------------------------------------------------------------
\* Everything but EnvironmentConfig, the environment and the threads inside
\* get_api_key / get_env.
notEnvConc == <<hvars, rvars, cvars, mvars, svars, fvars, dvars, ovars, kvars, avars, lvars>>

\* The variable the threads ask for.
ConcKeys == {"OPENAI_API_KEY"}

\* A thread calls get_api_key(key) or get_env(key, default).
EnvCall(t) ==
    /\ g_th[t].pc = "idle"
    /\ \E op \in {"get_api_key", "get_env"}, key \in ConcKeys, default \in {NoValue, "d"} :
          /\ (op = "get_api_key" => default = NoValue)
          /\ g_th' = [g_th EXCEPT ![t] = [pc |-> "init", op |-> op, key |-> key,
                                          default |-> default, raised |-> "",
                                          value |-> NoValue]]
    /\ UNCHANGED evars
    /\ UNCHANGED notEnvConc

\* `if not cls._initialized:`
EnvInitCheck(t) ==
    /\ g_th[t].pc = "init"
    /\ g_th' = [g_th EXCEPT ![t].pc = IF e_initialized THEN "check" ELSE "cls"]
    /\ UNCHANGED evars
    /\ UNCHANGED notEnvConc

\* `cls()`: __new__ and __init__ take the lock for their second checks; the
\* two are taken as one step here, made while the lock is free.
EnvCls(t) ==
    /\ g_th[t].pc = "cls"
    /\ e_lock = 0
    /\ ClsIfNotInitialized
    /\ BlankSinceKept
    /\ g_th' = [g_th EXCEPT ![t].pc = "check"]
    /\ UNCHANGED <<dotenv, e_cache, e_lock, e_last, s_th, e_epoch>>
    /\ UNCHANGED notEnvConc

\* `if key in cls._cache:` outside the lock (lines 59 and 100)
EnvCacheCheck(t) ==
    /\ g_th[t].pc = "check"
    /\ g_th' = [g_th EXCEPT ![t].pc =
                    IF e_cache[g_th[t].key] # Missing THEN "read" ELSE "lock"]
    /\ UNCHANGED evars
    /\ UNCHANGED notEnvConc

\* `return cls._cache[key]` outside the lock (lines 60 and 101): KeyError
\* when the entry is gone.
EnvCacheRead(t) ==
    /\ g_th[t].pc = "read"
    /\ g_th' = [g_th EXCEPT ![t] =
                    IF e_cache[g_th[t].key] # Missing
                    THEN [@ EXCEPT !.pc = "idle", !.value = e_cache[g_th[t].key]]
                    ELSE [@ EXCEPT !.pc = "idle", !.raised = "KeyError"]]
    /\ UNCHANGED evars
    /\ UNCHANGED notEnvConc

\* `with cls._lock:` (lines 63 and 104)
EnvLock(t) ==
    /\ g_th[t].pc = "lock"
    /\ e_lock = 0
    /\ e_lock' = t
    /\ g_th' = [g_th EXCEPT ![t].pc = "locked"]
    /\ UNCHANGED <<environ, dotenv, e_instance, e_initialized, e_cache, e_last,
                   blank_since, s_th, e_epoch, e_created, e_loads, e_next>>
    /\ UNCHANGED notEnvConc

\* The body of get_api_key under the lock, lines 65-80: [raised, value, cache].
ApiKeyLocked(key) ==
    IF e_cache[key] # Missing
    THEN [raised |-> "", value |-> e_cache[key], cache |-> e_cache]
    ELSE IF IsBlank(environ[key])
    THEN [raised |-> "EnvironmentError", value |-> NoValue, cache |-> e_cache]
    ELSE [raised |-> "", value |-> StripValue(environ[key]),
          cache |-> [e_cache EXCEPT ![key] = StripValue(environ[key])]]

\* The body of get_env under the lock, lines 105-118.
GetEnvLocked(key, default) ==
    LET value == IF environ[key] # Missing THEN environ[key] ELSE default IN
    IF e_cache[key] # Missing
    THEN [raised |-> "", value |-> e_cache[key], cache |-> e_cache]
    ELSE IF value # NoValue /\ StripValue(value) # ""
    THEN [raised |-> "", value |-> StripValue(value),
          cache |-> [e_cache EXCEPT ![key] = StripValue(value)]]
    ELSE [raised |-> "", value |-> IF default # NoValue THEN default ELSE value,
          cache |-> e_cache]

\* The thread that holds the lock runs the body and releases the lock.
EnvLocked(t) ==
    /\ g_th[t].pc = "locked"
    /\ e_lock = t
    /\ LET r == IF g_th[t].op = "get_api_key" THEN ApiKeyLocked(g_th[t].key)
                ELSE GetEnvLocked(g_th[t].key, g_th[t].default)
       IN /\ e_cache' = r.cache
          /\ g_th' = [g_th EXCEPT ![t] =
                          [@ EXCEPT !.pc = "idle", !.raised = r.raised, !.value = r.value]]
    /\ e_lock' = 0
    /\ UNCHANGED <<environ, dotenv, e_instance, e_initialized, e_last, blank_since,
                   s_th, e_epoch, e_created, e_loads, e_next>>
    /\ UNCHANGED notEnvConc

\* clear_cache, reload and reset run under the lock from their first to
\* their last statement.
EnvConcNext ==
    \/ \E t \in Threads : EnvCall(t)
    \/ \E t \in Threads : EnvInitCheck(t)
    \/ \E t \in Threads : EnvCls(t)
    \/ \E t \in Threads : EnvCacheCheck(t)
    \/ \E t \in Threads : EnvCacheRead(t)
    \/ \E t \in Threads : EnvLock(t)
    \/ \E t \in Threads : EnvLocked(t)
    \/ (e_lock = 0 /\ ClearCache)
    \/ (e_lock = 0 /\ Reload)
    \/ (e_lock = 0 /\ Reset)

\* The process starts with the variable missing, blank or set.
EnvConcSpecInit ==
    /\ environ \in {[k \in Keys |-> IF k \in ConcKeys THEN v ELSE Missing] : v \in EnvValues}
    /\ dotenv \in DotenvFiles
    /\ e_instance = 0
    /\ e_initialized = FALSE
    /\ e_cache = [k \in Keys |-> Missing]
    /\ e_lock = 0
    /\ e_last = [op |-> "none", key |-> "", default |-> NoValue, raised |-> "",
                 value |-> NoValue]
    /\ blank_since = [k \in Keys |-> IsBlank(environ[k])]
    /\ s_th = [t \in Threads |-> SingletonThreadIdle]
    /\ e_epoch = 0
    /\ e_created = 0
    /\ e_loads = 0
    /\ e_next = 1
    /\ EnvThreadsInit
    /\ HistoryInit /\ RetryIdle /\ ChatInit /\ MetricsInit /\ SummaryInit /\ FactoryInit
    /\ FilterInit /\ OllamaInit /\ RetriesInit /\ AgentsInit /\ LoggingInit

SpecEnvConc == EnvConcSpecInit /\ [][EnvConcNext]_vars

\* ------------------------------------------------------------------------
\* LoggingConfig (src/infra/config/logging_config.py) on top of the logging
\* module of the standard library
\* ------------------------------------------------------------------------
\* Everything but the logging state.
notLogging == <<hvars, rvars, cvars, mvars, svars, fvars, evars, dvars, ovars, kvars,
                gvars, avars>>

\* logging.DEBUG, logging.INFO and logging.ERROR
LogLevels == {10, 20, 40}

\* The default of configure(level=logging.INFO).
DefaultLogLevel == 20

LogOp(op) == [op |-> op, name |-> "", level |-> 0, emitted |-> FALSE]

\* The body of configure(level) when LoggingConfig is not configured yet:
\* the class level, a StreamHandler of that level added to the root logger,
\* the level of the root logger.
ConfigureFresh(level) ==
    /\ l_log_level' = level
    /\ l_handlers' = Append(l_handlers, level)
    /\ l_root_level' = level
    /\ l_configured' = TRUE

\* LoggingConfig.configure(level)
Configure ==
    /\ \E level \in LogLevels :
          IF l_configured
          THEN UNCHANGED <<l_log_level, l_handlers, l_root_level, l_configured>>
          ELSE ConfigureFresh(level)
    /\ l_last' = LogOp("configure")
    /\ UNCHANGED <<l_loggers, l_since>>
    /\ UNCHANGED notLogging

\* LoggingConfig.get_logger(name): configure() if needed, then the logger of
\* that name gets the class level.
GetLogger ==
    /\ \E name \in LoggerNames :
          /\ IF l_configured
             THEN UNCHANGED <<l_log_level, l_handlers, l_root_level, l_configured>>
             ELSE ConfigureFresh(DefaultLogLevel)
          /\ l_loggers' = [l_loggers EXCEPT ![name] =
                              [obtained |-> TRUE, level |-> l_log_level']]
    /\ l_last' = LogOp("get_logger")
    /\ UNCHANGED l_since
    /\ UNCHANGED notLogging

\* LoggingConfig.set_level(level): the class level and the level of the root
\* logger.
SetLevel ==
    /\ \E level \in LogLevels :
          /\ l_log_level' = level
          /\ l_root_level' = level
          /\ l_since' = IF l_configured THEN level ELSE l_since
    /\ l_last' = LogOp("set_level")
    /\ UNCHANGED <<l_configured, l_handlers, l_loggers>>
    /\ UNCHANGED notLogging

\* LoggingConfig.reset()
LoggingReset ==
    /\ l_configured' = FALSE
    /\ l_handlers' = <<>>
    /\ l_since' = 0
    /\ l_last' = LogOp("reset")
    /\ UNCHANGED <<l_log_level, l_root_level, l_loggers>>
    /\ UNCHANGED notLogging

\* Logger.getEffectiveLevel(): the level of the logger, or that of the root
\* logger when the logger has none.
EffectiveLevel(name) ==
    IF l_loggers[name].level # 0 THEN l_loggers[name].level ELSE l_root_level

\* Logger.log(level, ...): the record is made when the logger is enabled for
\* the level and is handed to the handlers of the root logger, each of which
\* emits it when its own level allows.
Emitted(name, level) ==
    /\ level >= EffectiveLevel(name)
    /\ \E i \in DOMAIN l_handlers : level >= l_handlers[i]

\* A module logs through a logger it got from get_logger.
Log ==
    /\ \E name \in LoggerNames, level \in LogLevels :
          /\ l_loggers[name].obtained
          /\ l_last' = [op |-> "log", name |-> name, level |-> level,
                        emitted |-> Emitted(name, level)]
    /\ UNCHANGED <<l_configured, l_log_level, l_root_level, l_handlers, l_loggers, l_since>>
    /\ UNCHANGED notLogging

LoggingNext ==
    \/ Configure
    \/ GetLogger
    \/ SetLevel
    \/ LoggingReset
    \/ Log

LoggingSpecInit ==
    /\ LoggingInit
    /\ HistoryInit /\ RetryIdle /\ ChatInit /\ MetricsInit /\ SummaryInit /\ FactoryInit
    /\ EnvInit /\ FilterInit /\ OllamaInit /\ RetriesInit /\ EnvThreadsInit /\ AgentsInit

SpecLogging == LoggingSpecInit /\ [][LoggingNext]_vars

\* ------------------------------------------------------------------------
\* AIAgent (src/presentation/agent_controller.py, src/main/composers)
\* ------------------------------------------------------------------------
\* Everything but the AIAgent objects, the adapters and the factory.
notAgents == <<hvars, rvars, cvars, mvars, svars, evars, dvars, ovars, kvars, gvars, lvars>>

\* The default of history_max_size.
AIAgentHistoryMaxSize == 10

\* The agents of the model are built on Ollama, the adapter that keeps
\* metrics; each agent sends a text of its own.
AgentProviders == {"ollama"}

AgentText(a) == IF a = 1 THEN "a" ELSE "b"

\* What OllamaChatAdapter.chat does for the use case: return a content, or
\* raise ChatException.
AdapterReplies ==
    {[kind |-> "return", text |-> "b"], [kind |-> "raise", text |-> "ChatException"]}

\* AIAgent(provider, model, name, instructions): AgentComposer.create_agent
\* builds the Agent and its History, AgentComposer.create_chat_use_case asks
\* the factory for the adapter of (provider, model).
AIAgentNew(a) ==
    /\ ~ai_agents[a].live
    /\ \E provider \in AgentProviders, model \in ModelNames :
          LET r == create(provider, model, FALSE) IN
          /\ CreateEffect(provider, model, r)
          /\ ai_agents' = [ai_agents EXCEPT ![a] =
                              [live |-> TRUE, adapter |-> r.ret,
                               max_size |-> AIAgentHistoryMaxSize,
                               history |-> DequeFrom(<<>>, AIAgentHistoryMaxSize)]]
          /\ ad_metrics' = IF r.built THEN Append(ad_metrics, <<>>) ELSE ad_metrics
    /\ UNCHANGED <<f_th, f_log>>
    /\ UNCHANGED notAgents

\* self.__chat_repository of the agent's ChatWithAgentUseCase
AdapterOfAgent(a) == ai_agents[a].adapter

\* AIAgent.chat(message): the use case calls the adapter, which appends one
\* record to its metrics, and on success records the turn in the history of
\* the agent.
AIAgentChat(a) ==
    /\ ai_agents[a].live
    /\ Len(ad_metrics[AdapterOfAgent(a)]) < MaxTurns
    /\ \E reply \in AdapterReplies :
          LET r == ExecuteTry(ai_agents[a].history, ai_agents[a].max_size,
                              [is_str |-> TRUE, text |-> AgentText(a)], reply)
          IN /\ ai_agents' = [ai_agents EXCEPT ![a].history = r.history]
             /\ ad_metrics' = [ad_metrics EXCEPT ![AdapterOfAgent(a)] =
                                  Append(@, [success |-> reply.kind = "return",
                                             agent |-> a])]
    /\ UNCHANGED fvars
    /\ UNCHANGED notAgents

\* AIAgent.clear_history()
AIAgentClearHistory(a) ==
    /\ ai_agents[a].live
    /\ ai_agents[a].history # <<>>
    /\ ai_agents' = [ai_agents EXCEPT ![a].history = <<>>]
    /\ UNCHANGED ad_metrics
    /\ UNCHANGED fvars
    /\ UNCHANGED notAgents

\* AIAgent.get_metrics(): the copy of the adapter's list.
AIAgentGetMetrics(a) == ad_metrics[AdapterOfAgent(a)]

AgentsNext ==
    \/ \E a \in AgentIds : AIAgentNew(a)
    \/ \E a \in AgentIds : AIAgentChat(a)
    \/ \E a \in AgentIds : AIAgentClearHistory(a)

AgentsSpecInit ==
    /\ AgentsInit
    /\ HistoryInit /\ RetryIdle /\ ChatInit /\ MetricsInit /\ SummaryInit /\ FactoryInit
    /\ EnvInit /\ FilterInit /\ OllamaInit /\ RetriesInit /\ EnvThreadsInit /\ LoggingInit

SpecAgents == AgentsSpecInit /\ [][AgentsNext]_vars

\* ------------------------------------------------------------------------
\* Claims about History
\* ------------------------------------------------------------------------
AppendOps == {"add", "add_user_message", "add_assistant_message", "add_system_message"}

\* C1: after any sequence of appends and clears on a History with max_size N,
\* get_messages() is the last min(M, N) messages appended since the latest
\* clear, oldest first; the length is min(M, N) and never exceeds N; an append
\* of a Message at capacity drops exactly the oldest message and does not fail.
C1_BoundedFifo ==
    h_live =>
        /\ get_messages = LastK(appended, Min(Len(appended), max_size))
        /\ HistoryLen = Min(Len(appended), max_size)
        /\ HistoryLen <= max_size
        /\ (h_last.op \in AppendOps /\ h_last.raised = "" /\ Len(h_last.before) = max_size)
              => /\ HistoryLen = max_size
                 /\ SubSeq(get_messages, 1, max_size - 1) = Tail(h_last.before)
                 /\ get_messages[max_size] = appended[Len(appended)]
        /\ (h_last.op = "add" /\ h_last.raised # "") => h_last.raised = "TypeError"

\* C1 witness: an append at capacity has evicted: more appended than retained.
C1_Witness ==
    /\ h_live
    /\ h_last.op \in AppendOps
    /\ h_last.raised = ""
    /\ Len(h_last.before) = max_size
    /\ Len(appended) > max_size
    /\ max_size >= 2

\* C2 (as stated): constructing a History with max_size <= 0, or with a
\* max_size that is not an integer, fails with a ConfigurationError and
\* produces no History.
C2_ConfigurationError ==
    (h_last.op = "new" /\ (h_last.arg.t \in {"str", "float", "NoneType"} \/ h_last.arg.v <= 0))
        => (h_last.raised = "ConfigurationError" /\ ~h_live)

\* C2 (amended): constructing a History with max_size <= 0, or with a
\* max_size that is not an int (a str, a float, None), fails with a
\* ValueError and produces no History; a History that exists has a capacity
\* >= 1 that is the int passed in, so no value is coerced into a capacity.
C2_ValueError ==
    /\ (h_last.op = "new" /\ (h_last.arg.t \in {"str", "float", "NoneType"} \/ h_last.arg.v <= 0))
          => (h_last.raised = "ValueError" /\ ~h_live)
    /\ (h_last.op = "new" /\ h_last.raised # "") => ~h_live
    /\ h_live => max_size >= 1
    /\ (h_last.op = "new" /\ h_live) => max_size = h_last.arg.v

\* C2 witness: a float max_size has been rejected and no History exists.
C2_Witness ==
    /\ h_last.op = "new"
    /\ h_last.arg = PyFloat(20)
    /\ h_last.raised = "ValueError"
    /\ ~h_live

\* ------------------------------------------------------------------------
\* Claims about retry_with_backoff
\* ------------------------------------------------------------------------
\* The wrapped function raises a retryable exception at invocation i.
FailsRetryably(i) ==
    /\ i \in DOMAIN func
    /\ func[i] \in ExceptionTypes
    /\ ("Exception" \in retry_args.exceptions \/ func[i] \in retry_args.exceptions)

\* The wrapped function raises an exception outside the retryable set at
\* invocation i.
FailsFatally(i) ==
    /\ i \in DOMAIN func
    /\ func[i] \in ExceptionTypes
    /\ "Exception" \notin retry_args.exceptions
    /\ func[i] \notin retry_args.exceptions

\* The function fails retryably on its first K invocations and then succeeds.
FailsKThenSucceeds(K) ==
    /\ K + 1 \in DOMAIN func
    /\ \A i \in 1..K : FailsRetryably(i)
    /\ func[K + 1] = "ok"

\* C3: a function that raises a retryable exception on its first K
\* invocations and then succeeds, with K < max_attempts: the wrapped call
\* returns the value of invocation K+1 and the function is invoked exactly
\* K+1 times.
C3_SucceedsAfterKFailures ==
    \A K \in 0..(MaxAttempts - 1) :
        (pc = "done" /\ K < retry_args.max_attempts /\ FailsKThenSucceeds(K))
            => (outcome = Returned(K + 1) /\ calls = K + 1)

\* C3 witness: a call has returned after two failed attempts.
C3_Witness ==
    /\ pc = "done"
    /\ FailsKThenSucceeds(2)
    /\ retry_args.max_attempts = 3
    /\ outcome = Returned(3)

\* C4: a function that raises a retryable exception on every invocation, with
\* max_attempts = N >= 1: the function is invoked exactly N times and the
\* wrapped call raises the exception of the N-th invocation.
C4_ExhaustsAttempts ==
    (/\ pc = "done"
     /\ retry_args.max_attempts >= 1
     /\ \A i \in 1..retry_args.max_attempts : FailsRetryably(i))
        => (calls = retry_args.max_attempts /\ outcome = Raised(retry_args.max_attempts))

\* C4 witness: three attempts have failed and the third exception is raised.
C4_Witness ==
    /\ pc = "done"
    /\ retry_args.max_attempts = 3
    /\ \A i \in 1..3 : FailsRetryably(i)
    /\ calls = 3
    /\ outcome = Raised(3)

\* C5: an invocation that raises an exception outside the retryable set ends
\* the call at once: it is the last thing the wrapper did (no invocation, no
\* on_retry, no sleep follows), its exception is what the call raises, and if
\* it is the first invocation the function has been invoked exactly once.
C5_NonRetryablePropagates ==
    \A j \in 1..Len(events) :
        (events[j].e = "call" /\ FailsFatally(events[j].a))
            => /\ j = Len(events)
               /\ pc = "done"
               /\ outcome = Raised(events[j].a)
               /\ calls = events[j].a
               /\ (events[j].a = 1 => calls = 1)

\* C5 witness: a non-retryable exception was raised at the second attempt of
\* a call that could have retried once more.
C5_Witness ==
    /\ pc = "done"
    /\ retry_args.max_attempts = 3
    /\ FailsRetryably(1)
    /\ FailsFatally(2)
    /\ calls = 2

\* The number of invocations that the function's outcomes alone prescribe:
\* up to the first invocation that returns or raises a non-retryable
\* exception, and at most max_attempts.
RECURSIVE PrescribedCalls(_)
PrescribedCalls(i) ==
    IF i >= retry_args.max_attempts \/ ~FailsRetryably(i) THEN i
    ELSE PrescribedCalls(i + 1)

\* C6: an exception raised inside on_retry never aborts the retry loop and
\* never reaches the caller: the failed callback is followed by the sleep and
\* the next attempt, and the call ends with the number of invocations and the
\* result that the function's outcomes prescribe.
C6_CallbackFailureIsolated ==
    /\ \A j \in 1..Len(events) :
          events[j].e = "callback_error" =>
              /\ (j = Len(events) => pc = "sleep")
              /\ (j < Len(events) => events[j + 1].e = "sleep")
              /\ (j + 1 = Len(events) => pc = "call")
              /\ (j + 1 < Len(events) => events[j + 2].e = "call")
    /\ outcome.kind # "raise_callback"
    /\ (pc = "done" /\ retry_args.max_attempts >= 1) =>
          /\ calls = PrescribedCalls(1)
          /\ outcome = IF func[calls] = "ok" THEN Returned(calls) ELSE Raised(calls)

\* C6 witness: a call has returned although its callback failed twice.
C6_Witness ==
    /\ pc = "done"
    /\ outcome = Returned(3)
    /\ Cardinality({j \in 1..Len(events) : events[j].e = "callback_error"}) = 2

\* ------------------------------------------------------------------------
\* Claims about the use cases
\* ------------------------------------------------------------------------
\* The chat input that ChatInputDTO must reject: not a string, empty or
\* whitespace-only.
InvalidChatInput(message) == ~message.is_str \/ message.text \in {"", " "}

\* C7: execute does not add to the agent's history on error: whenever it
\* raises, the history after the call is the history before the call; a call
\* that returns appends exactly the user message followed by the response.
C7_NoHistoryOnError ==
    [][chat_last'.op = "execute" =>
          IF chat_last'.raised # ""
          THEN agent_history' = agent_history
          ELSE agent_history' =
                   LastK(agent_history \o
                             <<Message("user", chat_last'.message.text),
                               Message("assistant", chat_last'.reply.text)>>,
                         agent_max_size)]_vars

\* C8: for a chat input that fails validation, execute raises the ValueError
\* before the repository is called: repository.chat is not invoked and the
\* agent's history is unchanged.
C8_ValidationBeforeRepository ==
    [][(chat_last'.op = "execute" /\ InvalidChatInput(chat_last'.message)) =>
          /\ chat_last'.raised = "ValueError"
          /\ repo_calls' = repo_calls
          /\ agent_history' = agent_history]_vars

\* C8 witness: a whitespace-only message was rejected by an agent that has
\* already chatted.
C8_Witness ==
    /\ chat_last.op = "execute"
    /\ chat_last.message = [is_str |-> TRUE, text |-> " "]
    /\ chat_last.raised = "ValueError"
    /\ repo_calls >= 1
    /\ agent_history # <<>>

\* C9: for an agent created with history_max_size = 2, after every successful
\* chat turn the retained history is exactly the user message and the
\* assistant response of that turn.
C9_OnlyLatestTurn ==
    (/\ agent_live
     /\ agent_max_size = 2
     /\ chat_last.op = "execute"
     /\ chat_last.raised = "")
        => /\ turns >= 1
           /\ agent_history = <<Message("user", chat_last.message.text),
                                Message("assistant", chat_last.reply.text)>>

\* C9 witness: the third successful turn of an agent with history_max_size 2.
C9_Witness ==
    /\ agent_live
    /\ agent_max_size = 2
    /\ chat_last.op = "execute"
    /\ chat_last.raised = ""
    /\ turns = 3

\* ------------------------------------------------------------------------
\* Claims about MetricsCollector
\* ------------------------------------------------------------------------
\* C10: a MetricsCollector bounded at max_metrics = K exists once it is
\* constructed with that bound, and never retains more than K records.
C10_BoundedCollector ==
    (mc_last.op = "new" /\ mc_last.max_metrics >= 1)
        => /\ mc_last.raised = ""
           /\ collector_live
           /\ Len(get_all) <= mc_last.max_metrics

\* ------------------------------------------------------------------------
\* Claims about MetricsCollector.get_summary
\* ------------------------------------------------------------------------
\* The indices of the retained records that satisfy a condition.
SuccessfulRecords == {i \in DOMAIN metrics : metrics[i].success}
RecordsWithTokens == {i \in DOMAIN metrics : metrics[i].tokens_used # NoTokens}

RECURSIVE SumOver(_, _)
\* The sum of f[i] over the indices in the set.
SumOver(f, indices) ==
    IF indices = {} THEN 0
    ELSE LET i == CHOOSE j \in indices : TRUE
         IN f[i] + SumOver(f, indices \ {i})

\* C11: for every non-empty list of retained records get_summary returns
\* total_requests = the number of records, successful = the number with
\* success true, failed = total_requests - successful, success_rate =
\* 100 * successful / total_requests, the average, minimum and maximum latency
\* over exactly the retained records, and total_tokens = the sum of tokens_used
\* over the records that have one; an empty collector reports total_requests = 0.
C11_SummaryOfRetained ==
    mc_last.op = "get_summary" =>
        IF metrics = <<>>
        THEN /\ summary.keys = {"total_requests"}
             /\ summary.total_requests = 0
        ELSE /\ summary.keys = SummaryKeys
             /\ summary.raised = ""
             /\ summary.total_requests = Len(metrics)
             /\ summary.successful = Cardinality(SuccessfulRecords)
             /\ summary.failed = summary.total_requests - summary.successful
             /\ FloatEq(summary.success_rate,
                        TrueDiv(100 * Cardinality(SuccessfulRecords), Len(metrics)))
             /\ FloatEq(summary.avg_latency_ms,
                        TrueDiv(SumOver([i \in DOMAIN metrics |-> metrics[i].latency_ms],
                                        DOMAIN metrics),
                                Len(metrics)))
             /\ \E i \in DOMAIN metrics : metrics[i].latency_ms = summary.min_latency_ms
             /\ \A i \in DOMAIN metrics : metrics[i].latency_ms >= summary.min_latency_ms
             /\ \E i \in DOMAIN metrics : metrics[i].latency_ms = summary.max_latency_ms
             /\ \A i \in DOMAIN metrics : metrics[i].latency_ms <= summary.max_latency_ms
             /\ summary.total_tokens =
                    SumOver([i \in DOMAIN metrics |-> metrics[i].tokens_used],
                            RecordsWithTokens)

\* C11 witness: the summary of latencies 100, 200, 300, all successful, one
\* of them without a token count: average 200, minimum 100, maximum 300 and a
\* success rate of 100.
C11_Witness ==
    /\ mc_last.op = "get_summary"
    /\ Len(metrics) = 3
    /\ LatenciesOf(metrics) = <<100, 200, 300>>
    /\ \A i \in DOMAIN metrics : metrics[i].success
    /\ \E i \in DOMAIN metrics : metrics[i].tokens_used = NoTokens
    /\ FloatEq(summary.avg_latency_ms, TrueDiv(200, 1))
    /\ summary.min_latency_ms = 100
    /\ summary.max_latency_ms = 300
    /\ FloatEq(summary.success_rate, TrueDiv(100, 1))

\* C12: add, get_all and get_summary are mutually exclusive on one collector:
\* no add is lost (the list holds every record added since the latest clear)
\* and every get_summary computes all its statistics from one single
\* snapshot, so that successful + failed = total_requests with failed >= 0
\* and the latencies summarised are those of the total_requests records.
C12_SummaryFromOneSnapshot ==
    summary.keys = SummaryKeys =>
        /\ summary.successful + summary.failed = summary.total_requests
        /\ summary.failed >= 0
        /\ summary.avg_latency_ms.den = summary.total_requests

\* ------------------------------------------------------------------------
\* Claims about ChatAdapterFactory
\* ------------------------------------------------------------------------
\* The creates that returned an adapter since the latest clear_cache.
CreateReturned(t) ==
    /\ f_th[t].pc = "idle"
    /\ f_th[t].fresh
    /\ f_th[t].raised = ""
    /\ f_th[t].ret # 0

\* C13: the adapter cache is lock-protected with a double-checked guard:
\* concurrent create calls with the same provider and a case-insensitively
\* equal model construct at most one adapter, and every caller receives that
\* instance.
C13_OneAdapterPerKey ==
    /\ \A a, b \in f_built : a.key = b.key => a.adapter = b.adapter
    /\ \A t, u \in Threads :
          (/\ CreateReturned(t)
           /\ CreateReturned(u)
           /\ CacheKey(f_th[t].provider, f_th[t].model)
                 = CacheKey(f_th[u].provider, f_th[u].model))
              => f_th[t].ret = f_th[u].ret

\* ------------------------------------------------------------------------
\* Claims about EnvironmentConfig
\* ------------------------------------------------------------------------
\* C14: in every state reachable by any sequence of get_env, get_api_key,
\* clear_cache, reload and reset, get_api_key(key) for a key whose variable
\* has been missing, empty or whitespace-only ever since the cache was last
\* cleared raises an EnvironmentError, returns no value and stores nothing in
\* the cache.
C14_BlankKeyRaises ==
    (e_last.op = "get_api_key" /\ blank_since[e_last.key])
        => /\ e_last.raised = "EnvironmentError"
           /\ e_last.value = NoValue
           /\ e_cache[e_last.key] = Missing

\* A construction that started after the latest reset and has returned.
ConstructedSinceReset(t) == s_th[t].pc = "done" /\ s_th[t].epoch = e_epoch

\* C18: between two reset calls, under any interleaving of concurrent
\* EnvironmentConfig() constructions, a single instance is created, every
\* construction returns it, and load_dotenv is executed exactly once.
C18_SingleInstance ==
    /\ e_created <= 1
    /\ e_loads <= 1
    /\ \A t \in Threads :
          ConstructedSinceReset(t)
              => /\ s_th[t].ret # 0
                 /\ s_th[t].ret = e_instance
                 /\ e_created = 1
                 /\ e_loads = 1
                 /\ e_initialized

\* C18 witness: after a reset, both threads have constructed, and one of them
\* found under the lock the instance that the other had created meanwhile.
C18_Witness ==
    /\ e_epoch >= 1
    /\ \A t \in Threads : ConstructedSinceReset(t)
    /\ \E t \in Threads : s_th[t].raced
    /\ \A t \in Threads : s_th[t].ret = e_instance

\* ------------------------------------------------------------------------
\* Claims about SensitiveDataFilter
\* ------------------------------------------------------------------------
\* C15: filter is idempotent, filter(filter(x)) = filter(x): the placeholders
\* and the labels written by one pass are not matched again by any rule.
C15_Idempotent ==
    (sdf_last.op = "filter" /\ sdf_last.src = "output")
        => sdf_last.result = sdf_last.text

\* C16: the LRU cache never changes results: after any sequence of filter and
\* clear_cache calls, also when the capacity of the cache has overflowed,
\* filter(text) returns exactly what the ordered rules give without a cache.
C16_CacheTransparent ==
    /\ sdf_last.op = "filter"
          => sdf_last.result = (IF sdf_last.text = <<>> THEN <<>>
                                ELSE ApplyPatterns(Patterns, sdf_last.text))
    /\ Len(sdf_cache) <= MaxCacheSize
    /\ \A i \in DOMAIN sdf_cache :
          sdf_cache[i].result = ApplyPatterns(Patterns, sdf_cache[i].text)

\* C16 witness: after an eviction, a text that is not the most recently used
\* one is answered from the cache, and the answer is a redacted text.
C16_Witness ==
    /\ sdf_last.op = "filter"
    /\ sdf_last.hit
    /\ sdf_overflowed
    /\ Len(sdf_cache) = MaxCacheSize
    /\ sdf_cache[Len(sdf_cache) - 1].text # sdf_last.text
    /\ sdf_last.result # sdf_last.text

\* C17: for every text and visible length N >= 0, mask_partial(text, N) has
\* the length of the text and replaces all but the last N characters with the
\* mask character: when len(text) > N exactly the last N characters stay
\* visible, when len(text) <= N every character is masked.
C17_MaskKeepsLength ==
    sdf_last.op = "mask_partial" =>
        LET text == sdf_last.text
            n == sdf_last.n
            result == sdf_last.result
        IN /\ Len(result) = Len(text)
           /\ \A i \in DOMAIN result :
                 result[i] = IF i > Len(text) - n /\ Len(text) > n THEN text[i] ELSE "*"

\* ------------------------------------------------------------------------
\* Claims about OllamaChatAdapter
\* ------------------------------------------------------------------------
\* C19: every call of OllamaChatAdapter.chat appends exactly one ChatMetrics
\* record, however many retry attempts happen; the record has success = true
\* iff the call returned a response, and success = false iff the call raised
\* ChatException.
C19_OneRecordPerChat ==
    /\ Len(o_metrics) = o_done
    /\ (o_pc = "idle" /\ o_last.op = "chat")
          => /\ Len(o_metrics) = o_last.before + 1
             /\ o_last.raised \in {"", "ChatException"}
             /\ o_metrics[Len(o_metrics)].success <=> o_last.raised = ""
             /\ ~o_metrics[Len(o_metrics)].success <=> o_last.raised = "ChatException"

\* C19 witness: a chat call that needed all three attempts has returned, after
\* a chat call that raised; there is one record for each.
C19_Witness ==
    /\ o_pc = "idle"
    /\ o_last.op = "chat"
    /\ o_last.attempts = OllamaMaxAttempts
    /\ o_last.raised = ""
    /\ Len(o_metrics) = 2
    /\ ~o_metrics[1].success
    /\ o_metrics[2].success

\* ------------------------------------------------------------------------
\* Claims about the on_retry callback
\* ------------------------------------------------------------------------
\* The invocations of on_retry so far, in order.
OnRetryEvents == SelectSeq(events, LAMBDA e : e.e = "on_retry")

\* C20: in one call of a wrapped function, on_retry is invoked exactly once
\* for each failed attempt that is going to be retried, with the 1-based
\* attempt number and that attempt's exception, in increasing order (1..K);
\* it is invoked neither after a successful attempt nor for the final failing
\* attempt, and each invocation happens after its attempt failed and before
\* the sleep that precedes the next attempt.
C20_OnRetryPerRetriedAttempt ==
    IF ~retry_args.on_retry THEN OnRetryEvents = <<>>
    ELSE /\ \A j \in DOMAIN OnRetryEvents :
               /\ OnRetryEvents[j].a = j
               /\ OnRetryEvents[j].x = j
               /\ FuncOutcome(j) # "ok"
               /\ Catches(FuncOutcome(j), retry_args.exceptions)
               /\ j < retry_args.max_attempts
         /\ Len(OnRetryEvents) =
               CASE pc = "idle" -> 0
                 [] pc = "call" -> attempt - 1
                 [] pc = "on_retry" -> attempt - 1
                 [] pc = "sleep" -> attempt
                 [] pc = "done" -> IF calls = 0 THEN 0 ELSE calls - 1
         /\ \A i \in DOMAIN events :
               /\ events[i].e = "on_retry"
                     => /\ i > 1
                        /\ events[i - 1] = Event("call", events[i].a, 0)
                        /\ \A k \in 1..(i - 1) :
                              events[k].e = "sleep" => events[k].a < events[i].a
               /\ events[i].e = "sleep"
                     => \E k \in 1..(i - 1) :
                           /\ events[k].e = "on_retry"
                           /\ events[k].a = events[i].a
               /\ (events[i].e = "call" /\ events[i].a > 1)
                     => /\ events[i - 1].e = "sleep"
                        /\ events[i - 1].a = events[i].a - 1

\* C20 witness: two failed attempts were retried and the third succeeded; the
\* callback was invoked for attempts 1 and 2 only.
C20_Witness ==
    /\ retry_args.on_retry
    /\ pc = "done"
    /\ outcome = [kind |-> "return", value |-> 3]
    /\ Len(OnRetryEvents) = 2
    /\ OnRetryEvents[1].a = 1
    /\ OnRetryEvents[2].a = 2
    /\ FuncOutcome(1) # FuncOutcome(2)

\* ------------------------------------------------------------------------
\* Claims about the delays of retry_with_backoff
\* ------------------------------------------------------------------------
RECURSIVE Power(_, _)
Power(b, n) == IF n <= 0 THEN 1 ELSE b * Power(b, n - 1)

\* initial_delay * backoff_factor^(k-1), in milliseconds
BaseDelay(k) == retry_args.initial_delay * Power(retry_args.backoff_factor, k - 1)

SleepEvents == {j \in 1..Len(events) : events[j].e = "sleep"}
CallEvents == {j \in 1..Len(events) : events[j].e = "call"}

\* C21: the sleep that follows the k-th failed attempt has the base delay
\* initial_delay * backoff_factor^(k-1): without jitter the sleep is that base,
\* with jitter it lies within [0.9, 1.1] times that base, whatever the jitter
\* of the earlier sleeps was.
C21_SleepFollowsBackoff ==
    \A j \in SleepEvents :
        LET k == events[j].a
            base == BaseDelay(k)
        IN /\ k >= 1
           /\ \A i \in 1..k : FailsRetryably(i)
           /\ ~retry_args.jitter => events[j].x = base
           /\ retry_args.jitter =>
                 /\ 90 * base <= 100 * events[j].x
                 /\ 100 * events[j].x <= 110 * base

\* C21 witness: with jitter, the first sleep was 10% short and the second 10%
\* long of its base delay.
C21_Witness ==
    /\ retry_args.jitter
    /\ retry_args.initial_delay = 1000
    /\ \E i, j \in SleepEvents :
          /\ events[i].a = 1 /\ 100 * events[i].x = 90 * BaseDelay(1)
          /\ events[j].a = 2 /\ 100 * events[j].x = 110 * BaseDelay(2)

C24_CallsAtLeastOnce ==
    pc = "done" =>
        /\ calls >= 1
        /\ outcome \in {Returned(calls), Raised(calls)}

\* ------------------------------------------------------------------------
\* Claims about ChatAdapterFactory, one call at a time
\* ------------------------------------------------------------------------
\* The creates that returned an adapter.
ReturnedCreates == {j \in 1..Len(f_log) : f_log[j].op = "create" /\ f_log[j].raised = ""}

\* Calls i and j name the same provider and case-insensitively the same model.
SameAdapterKey(i, j) ==
    /\ f_log[i].provider = f_log[j].provider
    /\ f_log[i].model \in {f_log[j].model}
          \cup (IF f_log[j].model \in {"gpt-5", "GPT-5"} THEN {"gpt-5", "GPT-5"} ELSE {})

\* No clear_cache between calls i and j.
NoClearBetween(i, j) == \A m \in (i + 1)..(j - 1) : f_log[m].op # "clear_cache"

\* C23: a create returns the instance of the previous create of the same
\* provider and (case-insensitively) the same model since the last
\* clear_cache, and otherwise an instance that no earlier create returned;
\* two creates of different keys never return the same instance; a create
\* with a provider other than openai or ollama raises ValueError and leaves
\* the cache as it was.
C23_CacheHitsAndMisses ==
    /\ \A j \in ReturnedCreates :
          LET prev == {i \in ReturnedCreates :
                          i < j /\ SameAdapterKey(i, j) /\ NoClearBetween(i, j)}
          IN /\ \A i \in prev : f_log[i].ret = f_log[j].ret
             /\ prev = {} => \A i \in ReturnedCreates : i < j => f_log[i].ret # f_log[j].ret
             /\ \A i \in ReturnedCreates :
                   (i < j /\ ~SameAdapterKey(i, j)) => f_log[i].ret # f_log[j].ret
    /\ \A j \in 1..Len(f_log) :
          (f_log[j].op = "create" /\ f_log[j].provider \notin {"openai", "ollama"})
              => /\ f_log[j].raised = "ValueError"
                 /\ f_log[j].after = f_log[j].before

\* C23 witness: GPT-5 got the adapter made for gpt-5, and after clear_cache
\* gpt-5 got another one.
C23_Witness ==
    /\ Len(f_log) >= 4
    /\ f_log[1].op = "create" /\ f_log[1].model = "gpt-5" /\ f_log[1].provider = "ollama"
    /\ f_log[2].op = "create" /\ f_log[2].model = "GPT-5" /\ f_log[2].provider = "ollama"
    /\ f_log[2].ret = f_log[1].ret /\ f_log[1].ret # 0
    /\ f_log[3].op = "clear_cache"
    /\ f_log[4].op = "create" /\ f_log[4].model = "gpt-5" /\ f_log[4].provider = "ollama"
    /\ f_log[4].ret \notin {0, f_log[1].ret}

\* ------------------------------------------------------------------------
\* Claims about the turns kept in an agent's history
\* ------------------------------------------------------------------------
\* A history of whole turns: user and assistant messages in alternation,
\* from a user message to an assistant message.
WholeTurns(h) ==
    /\ Len(h) % 2 = 0
    /\ \A i \in 1..Len(h) :
          h[i].role = (IF i % 2 = 1 THEN "user" ELSE "assistant")

\* C25: for an agent of any accepted history_max_size, as long as every chat
\* turn succeeded (each call of the repository was followed by a return of
\* execute), the retained history consists of whole turns.
C25_WholeTurnsOnly ==
    (agent_live /\ turns = repo_calls) => WholeTurns(agent_history)

\* ------------------------------------------------------------------------
\* Claims about the defaults of EnvironmentConfig.get_env
\* ------------------------------------------------------------------------
\* C27: get_env(key, default) with a default, for a variable that has been
\* missing, empty or whitespace-only ever since the cache was last cleared,
\* returns the default of that call, and the cache holds no value for such a
\* variable: a default is never stored.
C27_DefaultNeverCached ==
    /\ (/\ e_last.op = "get_env"
        /\ e_last.default # NoValue
        /\ blank_since[e_last.key])
          => (e_last.raised = "" /\ e_last.value = e_last.default)
    /\ \A k \in Keys : blank_since[k] => e_cache[k] = Missing

\* ------------------------------------------------------------------------
\* Claims about the retries of OllamaChatAdapter
\* ------------------------------------------------------------------------
\* C29: within one chat call the Ollama API is invoked at most as many times
\* as the max-retries value that the adapter loaded at construction.
C29_AttemptsBoundedByMaxRetries ==
    /\ (o_pc = "api" => calls <= o_max_retries)
    /\ (o_last.op = "chat" => o_last.attempts <= o_max_retries)

\* ------------------------------------------------------------------------
\* Claims about AIAgent
\* ------------------------------------------------------------------------
\* C26: what an AIAgent reports comes from its own chat calls only: its
\* history holds no message of another agent, and every record that its
\* get_metrics() returns was made by a chat call through that agent.
C26_AgentsIndependent ==
    \A a \in AgentIds :
        ai_agents[a].live =>
            /\ \A i \in 1..Len(ai_agents[a].history) :
                  ai_agents[a].history[i].role = "user"
                      => ai_agents[a].history[i].content = AgentText(a)
            /\ \A i \in 1..Len(AIAgentGetMetrics(a)) : AIAgentGetMetrics(a)[i].agent = a

\* ------------------------------------------------------------------------
\* Claims about EnvironmentConfig under cache invalidation
\* ------------------------------------------------------------------------
\* C28: get_api_key and get_env running beside clear_cache, reload and reset
\* end by returning a value or by raising EnvironmentError, never with a
\* KeyError from an entry removed between the membership check and the read.
C28_NoKeyErrorUnderInvalidation ==
    \A t \in Threads :
        /\ g_th[t].raised \in {"", "EnvironmentError"}
        /\ (g_th[t].raised = "EnvironmentError" => g_th[t].op = "get_api_key")

\* ------------------------------------------------------------------------
\* Claims about LoggingConfig
\* ------------------------------------------------------------------------
\* C30: after set_level(L), made with the handler installed and not followed
\* by another set_level or a reset, a record logged through any logger that
\* get_logger returned, before or after the set_level, is emitted if and only
\* if its level is at least L.
C30_SetLevelIsTheThreshold ==
    (l_last.op = "log" /\ l_since # 0 /\ l_configured)
        => (l_last.emitted <=> l_last.level >= l_since)

====
